---- MODULE Spec2Model ----
(***************************************************************************)
(* A model of iamawrapper's binary-format assembly layer: the Intune       *)
(* authenticated encryption (packager/encrypt.rs), the BOM writer          *)
(* (macos/bom.rs), the XAR writer (macos/xar.rs), Detection.xml            *)
(* (packager/metadata.rs) and the Intune package/unpack pipeline           *)
(* (packager/mod.rs).  Bytes are the integers 0..255 and byte strings and  *)
(* texts are sequences of them (a text is the sequence of its ASCII        *)
(* codes).                                                                 *)
(***************************************************************************)
EXTENDS Integers, Sequences, FiniteSets, TLC

VARIABLES
    \* packager/encrypt.rs
    plaintext,      \* the argument of encrypt_content
    encInfo,        \* the EncryptionInfo encrypt_content returned
    encrypted,      \* the framed blob HMAC || IV || ciphertext held by the caller
    decResult,      \* what decrypt_content returned
    aesCalls,       \* how often decrypt_content reached aes_decrypt
    cpc,            \* position of the encrypt / decrypt caller
    \* macos/bom.rs
    bomEntries,     \* the argument of create_bom
    bomOut,         \* what create_bom returned
    bomAllPaths,    \* all_paths.len() when create_bom writes the Paths leaf
    bomCounts,      \* the counts create_bom then writes, read from its blocks
    \* macos/xar.rs
    xarEntries,     \* XarBuilder.entries
    xarNextId,      \* XarBuilder.next_id
    xarOut,         \* what finish wrote to its writer
    \* packager/metadata.rs
    detMeta,        \* the DetectionMetadata given to generate_detection_xml
    detXml,         \* the text generate_detection_xml returned
    detParsed,      \* what parse_detection_xml returned
    dpc,            \* position of the generate / parse caller
    detEdit,        \* how the document given to parse_detection_xml was composed
    \* packager/mod.rs
    srcFolder,      \* the files of PackageRequest.source_folder
    pkgSetupFile,   \* PackageRequest.setup_file
    pkgVerbosity,   \* PackageRequest.verbosity
    outputFile,     \* the file at PackageRequest::output_path(), <<>> if none
    pkgResult,      \* what package returned
    pkgInnerZip,    \* the inner ZIP package built
    unpackFolder,   \* the files of UnpackRequest.output_folder
    unpackResult,   \* what unpack returned
    pkgCall,        \* how package was reached, the file at the output path
                    \* before, and the operator's answers to the prompts
    \* cli/mod.rs
    cliCommand,     \* the subcommand of CliArgs, "none" if there is none
    cliQuiet,       \* CliArgs.quiet
    cliSilent,      \* CliArgs.silent
    cliOutcome,     \* what the operation returned to run
    cliExit,        \* the ExitCode run returned, -1 while it runs
    \* macos/cpio.rs
    cpioEntries,    \* the argument of create_cpio_archive
    cpioNow,        \* what SystemTime::now() gives, in seconds
    cpioOut,        \* what create_cpio_archive returned
    cpioHeaderArgs, \* the arguments of CpioHeader::for_file
    cpioHeader,     \* what to_bytes returned for that header
    cpioPc,         \* position of the caller
    \* macos/mod.rs
    macSource,      \* the files of MacosPkgRequest.source_folder
    macScripts,     \* MacosPkgRequest.scripts_folder and what it holds
    macVia,         \* how the build was started
    macResult,      \* what the build returned
    macOutput       \* the file at MacosPkgRequest::output_path(), <<>> if none

cryptoVars == <<plaintext, encInfo, encrypted, decResult, aesCalls, cpc>>
bomVars == <<bomEntries, bomOut, bomAllPaths, bomCounts>>
xarVars == <<xarEntries, xarNextId, xarOut>>
detVars == <<detMeta, detXml, detParsed, dpc, detEdit>>
intuneVars ==
    <<srcFolder, pkgSetupFile, pkgVerbosity, outputFile, pkgResult, pkgInnerZip,
      unpackFolder, unpackResult, pkgCall>>

cliVars == <<cliCommand, cliQuiet, cliSilent, cliOutcome, cliExit>>

cpioVars == <<cpioEntries, cpioNow, cpioOut, cpioHeaderArgs, cpioHeader, cpioPc>>

macVars == <<macSource, macScripts, macVia, macResult, macOutput>>

vars == <<cryptoVars, bomVars, xarVars, detVars, intuneVars, cliVars, cpioVars, macVars>>

nonCryptoVars == <<bomVars, xarVars, detVars, intuneVars, cliVars, cpioVars, macVars>>
nonBomVars == <<cryptoVars, xarVars, detVars, intuneVars, cliVars, cpioVars, macVars>>
nonXarVars == <<cryptoVars, bomVars, detVars, intuneVars, cliVars, cpioVars, macVars>>
nonDetVars == <<cryptoVars, bomVars, xarVars, intuneVars, cliVars, cpioVars, macVars>>
nonIntuneVars == <<cryptoVars, bomVars, xarVars, detVars, cliVars, cpioVars, macVars>>
nonCliVars == <<cryptoVars, bomVars, xarVars, detVars, intuneVars, cpioVars, macVars>>
nonCpioVars == <<cryptoVars, bomVars, xarVars, detVars, intuneVars, cliVars, macVars>>
nonMacVars == <<cryptoVars, bomVars, xarVars, detVars, intuneVars, cliVars, cpioVars>>

\* a Detection.xml composed as generate_detection_xml writes it
NoEdit == [element |-> <<>>, how |-> "none", reversed |-> FALSE, decl |-> FALSE]

\* MacosPkgRequest.scripts_folder = None
NoScriptsFolder == [kind |-> "none", preinstall |-> "absent", postinstall |-> "absent"]

\* package has not been called
NoCall == [via |-> "none", existing |-> <<>>, overwrite |-> "not_asked", proceed |-> "not_asked"]

\* The parts of the program a specification does not exercise stay as
\* constructed.
NoCounts == [leaf_count |-> -1, pairs |-> -1, path_count |-> -1, number_of_paths |-> -1]

BomIdle ==
    /\ bomEntries = <<>>
    /\ bomOut = [kind |-> "None", bytes |-> <<>>]
    /\ bomAllPaths = 0
    /\ bomCounts = NoCounts

XarIdle == xarEntries = <<>> /\ xarNextId = 1 /\ xarOut = [kind |-> "None", bytes |-> <<>>]

DetIdle ==
    /\ detMeta = <<>> /\ detXml = <<>>
    /\ detParsed = [kind |-> "None", meta |-> <<>>] /\ dpc = "idle"
    /\ detEdit = NoEdit

IntuneIdle ==
    /\ srcFolder = <<>> /\ pkgSetupFile = <<>> /\ pkgVerbosity = "Normal"
    /\ outputFile = <<>> /\ pkgResult = "None" /\ pkgInnerZip = <<>>
    /\ unpackFolder = <<>>
    /\ unpackResult = [kind |-> "None", setup_file |-> <<>>, file_count |-> 0,
                       total_size |-> 0]
    /\ pkgCall = NoCall

CliIdle ==
    /\ cliCommand = "none" /\ cliQuiet = FALSE /\ cliSilent = FALSE
    /\ cliOutcome = "None" /\ cliExit = -1

CpioIdle ==
    /\ cpioEntries = <<>> /\ cpioNow = 0 /\ cpioOut = <<>> /\ cpioHeaderArgs = <<>>
    /\ cpioHeader = <<>> /\ cpioPc = "idle"

MacIdle ==
    /\ macSource = <<>> /\ macScripts = NoScriptsFolder /\ macVia = "none"
    /\ macResult = "None" /\ macOutput = <<>>

NonCryptoIdle == BomIdle /\ XarIdle /\ DetIdle /\ IntuneIdle /\ CliIdle /\ CpioIdle /\ MacIdle

(***************************************************************************)
(* Bounds of the model.                                                    *)
(***************************************************************************)
MaxPlainLen == 16
MaxBomEntries == 3
MaxPathCount == 60
MaxXarEntries == 3
MaxNameLen == 2
MaxContentLen == 2
MaxCpioEntries == 2

(***************************************************************************)
(* Bytes and byte strings.                                                 *)
(***************************************************************************)
Min(a, b) == IF a < b THEN a ELSE b

\* [0u8; n] / vec![b; n]
Fill(n, b) == [i \in 1..n |-> b]

\* &s[from..] with a 0-based start
Drop(s, n) == SubSeq(s, n + 1, Len(s))

\* &s[..n]
Take(s, n) == SubSeq(s, 1, n)

\* the value of a let binding, computed once
Once(values) == CHOOSE v \in values : TRUE

RECURSIVE Xor(_, _)
\* x ^ y on unsigned integers
Xor(x, y) ==
    IF x = 0 THEN y
    ELSE IF y = 0 THEN x
    ELSE (((x % 2) + (y % 2)) % 2) + 2 * Xor(x \div 2, y \div 2)

RECURSIVE Or(_, _)
\* x | y on unsigned integers
Or(x, y) ==
    IF x = 0 THEN y
    ELSE IF y = 0 THEN x
    ELSE (IF x % 2 = 1 \/ y % 2 = 1 THEN 1 ELSE 0) + 2 * Or(x \div 2, y \div 2)

RECURSIVE SumStride(_, _, _)
\* data[i] + data[i + stride] + ... up to the end of data
SumStride(data, i, stride) ==
    IF i > Len(data) THEN 0 ELSE data[i] + SumStride(data, i + stride, stride)

(***************************************************************************)
(* packager/encrypt.rs.  The primitives of the aes, cbc, hmac and sha2     *)
(* crates are modelled by small keyed functions with the same shape: the   *)
(* block cipher is a keyed permutation of 16-byte blocks, run in CBC mode  *)
(* with PKCS#7 padding; the MAC and the digest are positional checksums    *)
(* of all the bytes they are given, so that, as for the real primitives    *)
(* (up to negligible probability), two messages that differ in one byte    *)
(* have different tags.                                                    *)
(***************************************************************************)
BlockSize == 16
HmacLen == 32
IvLen == 16
MinEncryptedLen == 64

\* One block of the keyed permutation standing for AES-256: rotate the block
\* by one position and add the key byte.
AesEncryptBlock(key, b) ==
    [i \in 1..BlockSize |-> (b[(i % BlockSize) + 1] + key[i] + key[i + 16]) % 256]

AesDecryptBlock(key, c) ==
    [j \in 1..BlockSize |->
        LET i == IF j = 1 THEN BlockSize ELSE j - 1
        IN (c[i] + 512 - key[i] - key[i + 16]) % 256]

XorBlock(a, b) == [i \in 1..BlockSize |-> Xor(a[i], b[i])]

\* Pkcs7 padding of the cbc crate: always 1..16 bytes, each the pad length.
Pkcs7Pad(data) ==
    LET padding == BlockSize - (Len(data) % BlockSize)
    IN data \o Fill(padding, padding)

Pkcs7Valid(buf) ==
    /\ Len(buf) > 0
    /\ LET n == buf[Len(buf)]
       IN /\ n >= 1
          /\ n <= BlockSize
          /\ \A i \in (Len(buf) - n + 1)..Len(buf) : buf[i] = n

RECURSIVE CbcEncrypt(_, _, _)
\* cbc::Encryptor: c_i = E_k(p_i ^ c_(i-1)), c_0 = iv
CbcEncrypt(key, prev, padded) ==
    IF Len(padded) = 0 THEN <<>>
    ELSE LET c == AesEncryptBlock(key, XorBlock(Take(padded, BlockSize), prev))
         IN c \o CbcEncrypt(key, c, Drop(padded, BlockSize))

RECURSIVE CbcDecrypt(_, _, _)
\* cbc::Decryptor: p_i = D_k(c_i) ^ c_(i-1), c_0 = iv
CbcDecrypt(key, prev, ct) ==
    IF Len(ct) = 0 THEN <<>>
    ELSE LET c == Take(ct, BlockSize)
         IN XorBlock(AesDecryptBlock(key, c), prev)
                \o CbcDecrypt(key, c, Drop(ct, BlockSize))

\* A variant that adds no padding block to block-aligned input.
aes_encrypt_unpadded_when_aligned(data, key, iv) ==
    CbcEncrypt(key, iv,
               IF Len(data) % BlockSize = 0 /\ Len(data) > 0 THEN data ELSE Pkcs7Pad(data))

aes_encrypt(data, key, iv) == CbcEncrypt(key, iv, Pkcs7Pad(data))

aes_decrypt(ciphertext, key, iv) ==
    IF Len(ciphertext) = 0 \/ Len(ciphertext) % 16 # 0
    THEN [kind |-> "DecryptionError", data |-> <<>>]
    ELSE LET buffer == CbcDecrypt(key, iv, ciphertext)
         IN IF Pkcs7Valid(buffer)
            THEN [kind |-> "Ok",
                  data |-> Take(buffer, Len(buffer) - buffer[Len(buffer)])]
            ELSE [kind |-> "InvalidPadding", data |-> <<>>]

\* The 32-byte tag: byte i sums the key byte and the data bytes at the
\* positions congruent to i, and byte 1 also takes the length.
compute_hmac(key, data) ==
    [i \in 1..HmacLen |->
        (key[i]
         + (IF i = 1 THEN Len(data) ELSE 0)
         + SumStride(data, i, HmacLen)) % 256]

compute_sha256(data) ==
    [i \in 1..32 |->
        ((IF i = 1 THEN Len(data) ELSE 0) + 99
         + SumStride(data, i, 32)) % 256]

RECURSIVE CompareFold(_, _, _)
\* the loop of constant_time_compare: result |= x ^ y over the zipped bytes
CompareFold(a, b, i) ==
    IF i > Len(a) THEN 0
    ELSE Or(Xor(a[i], b[i]), CompareFold(a, b, i + 1))

constant_time_compare(a, b) ==
    IF Len(a) # Len(b) THEN FALSE ELSE CompareFold(a, b, 1) = 0

\* EncryptionInfo::new(): zeroed secrets, "ProfileVersion1" and "SHA256"
NewEncryptionInfo ==
    [encryption_key |-> Fill(32, 0), mac_key |-> Fill(32, 0), iv |-> Fill(16, 0),
     mac |-> Fill(32, 0), file_digest |-> Fill(32, 0),
     profile_identifier |->
         <<80, 114, 111, 102, 105, 108, 101, 86, 101, 114, 115, 105, 111, 110, 49>>,
     file_digest_algorithm |-> <<83, 72, 65, 50, 53, 54>>]

\* What rand::thread_rng().fill_bytes may put into a buffer of n bytes.
RandomBytes(n, seed) == [i \in 1..n |-> (seed * (i + 2)) % 256]

RngSeeds == {0, 7}

\* generate_keys: the three buffers drawn by the RNG
KeyDraws ==
    {<<RandomBytes(32, s), RandomBytes(32, s + 1), RandomBytes(16, s + 2)>> : s \in RngSeeds}

\* A variant that authenticates the ciphertext alone.
HmacInputCiphertextOnly(iv, ciphertext) == ciphertext

\* The bytes the HMAC is computed over: IV || ciphertext
HmacInput(iv, ciphertext) == iv \o ciphertext

\* encrypt_content with the RNG's draw made explicit
encrypt_content(data, draw) ==
    LET key == draw[1]
        mac_key == draw[2]
        iv == draw[3]
        ciphertext == aes_encrypt(data, key, iv)
        mac == compute_hmac(mac_key, HmacInput(iv, ciphertext))
    IN [output |-> mac \o iv \o ciphertext,
        info |-> [NewEncryptionInfo EXCEPT
                    !.encryption_key = key, !.mac_key = mac_key, !.iv = iv,
                    !.mac = mac, !.file_digest = compute_sha256(data)]]

\* The HMAC check of decrypt_content
HmacVerified(encrypted_data, info) ==
    LET stored_hmac == SubSeq(encrypted_data, 1, 32)
        iv == SubSeq(encrypted_data, 33, 48)
        ciphertext == Drop(encrypted_data, 48)
    IN constant_time_compare(compute_hmac(info.mac_key, HmacInput(iv, ciphertext)),
                             stored_hmac)

\* A variant that looks at the ciphertext length before the HMAC.
decrypt_content_length_first(encrypted_data, info) ==
    IF Len(encrypted_data) < MinEncryptedLen \/ Len(encrypted_data) % 16 # 0
    THEN [kind |-> "DecryptionError", data |-> <<>>, aes |-> 0]
    ELSE IF ~HmacVerified(encrypted_data, info)
    THEN [kind |-> "HmacVerificationFailed", data |-> <<>>, aes |-> 0]
    ELSE LET r == aes_decrypt(Drop(encrypted_data, 48), info.encryption_key,
                              SubSeq(encrypted_data, 33, 48))
         IN [kind |-> r.kind, data |-> r.data, aes |-> 1]

\* decrypt_content; aes counts the calls of aes_decrypt
decrypt_content(encrypted_data, info) ==
    IF Len(encrypted_data) < MinEncryptedLen
    THEN [kind |-> "DecryptionError", data |-> <<>>, aes |-> 0]
    ELSE IF ~HmacVerified(encrypted_data, info)
    THEN [kind |-> "HmacVerificationFailed", data |-> <<>>, aes |-> 0]
    ELSE LET r == aes_decrypt(Drop(encrypted_data, 48), info.encryption_key,
                              SubSeq(encrypted_data, 33, 48))
         IN [kind |-> r.kind, data |-> r.data, aes |-> 1]

(***************************************************************************)
(* The encrypt / decrypt caller.                                           *)
(***************************************************************************)
PlainFill == {0, 200}

Plaintexts ==
    {[i \in 1..n |-> (b + i) % 256] : n \in 0..MaxPlainLen, b \in PlainFill}

NoResult == [kind |-> "None", data |-> <<>>]

CryptoIdle ==
    /\ plaintext = <<>> /\ encInfo = NewEncryptionInfo /\ encrypted = <<>>
    /\ decResult = NoResult /\ aesCalls = 0 /\ cpc = "idle"

NonBomIdle == CryptoIdle /\ XarIdle /\ DetIdle /\ IntuneIdle /\ CliIdle /\ CpioIdle /\ MacIdle

NonXarIdle == CryptoIdle /\ BomIdle /\ DetIdle /\ IntuneIdle /\ CliIdle /\ CpioIdle /\ MacIdle

NonDetIdle == CryptoIdle /\ BomIdle /\ XarIdle /\ IntuneIdle /\ CliIdle /\ CpioIdle /\ MacIdle

NonIntuneIdle == CryptoIdle /\ BomIdle /\ XarIdle /\ DetIdle /\ CliIdle /\ CpioIdle /\ MacIdle

NonCliIdle == CryptoIdle /\ BomIdle /\ XarIdle /\ DetIdle /\ IntuneIdle /\ CpioIdle /\ MacIdle

NonCpioIdle == CryptoIdle /\ BomIdle /\ XarIdle /\ DetIdle /\ IntuneIdle /\ CliIdle /\ MacIdle

NonMacIdle == CryptoIdle /\ BomIdle /\ XarIdle /\ DetIdle /\ IntuneIdle /\ CliIdle /\ CpioIdle

CryptoInit ==
    /\ plaintext \in Plaintexts
    /\ encInfo = NewEncryptionInfo
    /\ encrypted = <<>>
    /\ decResult = NoResult
    /\ aesCalls = 0
    /\ cpc = "start"
    /\ NonCryptoIdle

EncryptContent ==
    /\ cpc = "start"
    /\ \E draw \in KeyDraws :
         LET r == encrypt_content(plaintext, draw)
         IN /\ encrypted' = r.output
            /\ encInfo' = r.info
    /\ cpc' = "encrypted"
    /\ UNCHANGED <<plaintext, decResult, aesCalls, nonCryptoVars>>

\* One byte of the framed blob is changed in storage or in transit.
TamperMasks == {1, 255}

TamperByte ==
    /\ cpc = "encrypted"
    /\ \E pos \in 1..Len(encrypted), mask \in TamperMasks :
         encrypted' = [encrypted EXCEPT ![pos] = Xor(@, mask)]
    /\ cpc' = "tampered"
    /\ UNCHANGED <<plaintext, encInfo, decResult, aesCalls, nonCryptoVars>>

\* How many bytes a forged blob lacks at its end.
ForgeCuts == {0, 1, 16, 17, 33}

\* A holder of the MAC key (Detection.xml carries it) makes a blob of its
\* own from the framed one: bytes are cut off the end, the last byte of the
\* block before the last one is changed, and the HMAC is computed anew or
\* left as it was.
ForgeBlob ==
    /\ cpc = "encrypted"
    /\ \E cut \in ForgeCuts, flip \in BOOLEAN, reseal \in BOOLEAN :
         LET kept == Take(Drop(encrypted, 32), Len(encrypted) - 32 - cut)
             at == Len(kept) - 16
             body == IF flip /\ at >= 1 THEN [kept EXCEPT ![at] = Xor(@, 1)] ELSE kept
             mac == IF reseal /\ Len(body) >= 16
                    THEN compute_hmac(encInfo.mac_key,
                                      HmacInput(SubSeq(body, 1, 16), Drop(body, 16)))
                    ELSE SubSeq(encrypted, 1, 32)
         IN encrypted' = mac \o body
    /\ cpc' = "forged"
    /\ UNCHANGED <<plaintext, encInfo, decResult, aesCalls, nonCryptoVars>>

DecryptContent ==
    /\ cpc \in {"encrypted", "tampered", "forged"}
    /\ LET r == decrypt_content(encrypted, encInfo)
       IN /\ decResult' = [kind |-> r.kind, data |-> r.data]
          /\ aesCalls' = aesCalls + r.aes
    /\ cpc' = CASE cpc = "encrypted" -> "decrypted"
               [] cpc = "tampered" -> "rejected"
               [] cpc = "forged" -> "checked"
    /\ UNCHANGED <<plaintext, encInfo, encrypted, nonCryptoVars>>

CryptoNext ==
    \/ EncryptContent
    \/ TamperByte
    \/ ForgeBlob
    \/ DecryptContent

SpecCrypto == CryptoInit /\ [][CryptoNext]_vars

(***************************************************************************)
(* Properties of packager/encrypt.rs, checked under SpecCrypto.            *)
(***************************************************************************)

\* C1: decrypt_content applied to the framed blob and the EncryptionInfo that
\* encrypt_content(P) returned gives back exactly P, for every plaintext P
\* (the empty one and the block-aligned ones included).
C1_RoundTrip ==
    cpc = "decrypted" => decResult = [kind |-> "Ok", data |-> plaintext]

\* A block-aligned plaintext has been encrypted and decrypted.
C1_Witness ==
    /\ cpc = "decrypted"
    /\ Len(plaintext) = BlockSize
    /\ Len(encrypted) = 48 + 2 * BlockSize
    /\ decResult.data = plaintext

\* C2: after one byte of a framed blob is changed, wherever it lies,
\* decrypt_content with the matching EncryptionInfo returns
\* HmacVerificationFailed, without reaching aes_decrypt and without plaintext.
C2_TamperRejected ==
    cpc = "rejected" =>
        /\ decResult.kind = "HmacVerificationFailed"
        /\ decResult.data = <<>>
        /\ aesCalls = 0

\* A blob whose HMAC and IV regions are intact and whose ciphertext was
\* changed has been rejected.
C2_Witness ==
    /\ cpc = "rejected"
    /\ SubSeq(encrypted, 1, 32) = encInfo.mac
    /\ SubSeq(encrypted, 33, 48) = encInfo.iv
    /\ decResult.kind = "HmacVerificationFailed"

\* C15: decrypt_content applies its checks in a fixed order and the first
\* failing one decides: a framed length below 64 gives DecryptionError;
\* otherwise an HMAC mismatch gives HmacVerificationFailed; otherwise a
\* ciphertext length that is not a multiple of 16 gives DecryptionError;
\* otherwise bad PKCS#7 padding gives InvalidPadding; and aes_decrypt is
\* reached only when the HMAC check has passed.
C15_CheckOrder ==
    cpc = "checked" =>
        LET iv == SubSeq(encrypted, 33, 48)
            ciphertext == Drop(encrypted, 48)
        IN IF Len(encrypted) < 64
           THEN decResult.kind = "DecryptionError" /\ aesCalls = 0
           ELSE IF compute_hmac(encInfo.mac_key, iv \o ciphertext) # SubSeq(encrypted, 1, 32)
           THEN decResult.kind = "HmacVerificationFailed" /\ aesCalls = 0
           ELSE IF Len(ciphertext) % 16 # 0
           THEN decResult.kind = "DecryptionError" /\ aesCalls = 1
           ELSE IF ~Pkcs7Valid(CbcDecrypt(encInfo.encryption_key, iv, ciphertext))
           THEN decResult.kind = "InvalidPadding" /\ aesCalls = 1
           ELSE decResult.kind = "Ok" /\ aesCalls = 1

\* A blob with a matching HMAC, a whole number of blocks and bad padding
\* has been refused after aes_decrypt ran.
C15_Witness ==
    /\ cpc = "checked"
    /\ Len(encrypted) >= 64
    /\ Len(encrypted) % 16 = 0
    /\ decResult.kind = "InvalidPadding"
    /\ aesCalls = 1

(***************************************************************************)
(* macos/bom.rs.  A path is the text of its string; std::path is modelled  *)
(* for relative paths whose components are plain names.                    *)
(***************************************************************************)
Slash == 47
Dot == 46

\* val.to_be_bytes() of a u32 (every number of the model is below 2^31)
write_u32_be(val) ==
    <<(val \div 16777216) % 256, (val \div 65536) % 256, (val \div 256) % 256, val % 256>>

\* val.to_be_bytes() of a u16
write_u16_be(val) == LET v == val % 65536 IN <<v \div 256, v % 256>>

RECURSIVE FlattenRange(_, _, _)
\* ss[lo] \o ... \o ss[hi], by halving
FlattenRange(ss, lo, hi) ==
    IF lo > hi THEN <<>>
    ELSE IF lo = hi THEN ss[lo]
    ELSE LET mid == (lo + hi) \div 2
         IN FlattenRange(ss, lo, mid) \o FlattenRange(ss, mid + 1, hi)

\* the concatenation of a sequence of byte strings
Flatten(ss) == FlattenRange(ss, 1, Len(ss))

RECURSIVE SplitOn(_, _, _)
\* str.split(sep): the pieces of s between separators, cur the piece so far
SplitOn(s, sep, cur) ==
    IF Len(s) = 0 THEN <<cur>>
    ELSE IF Head(s) = sep THEN <<cur>> \o SplitOn(Tail(s), sep, <<>>)
    ELSE SplitOn(Tail(s), sep, Append(cur, Head(s)))

\* Path::components(): the non-empty pieces between slashes
Components(path) == SelectSeq(SplitOn(path, Slash, <<>>), LAMBDA c : Len(c) > 0)

\* PathBuf::push of a relative component
PathPush(current, component) ==
    IF Len(current) = 0 THEN component ELSE current \o <<Slash>> \o component

RECURSIVE JoinComponents(_)
JoinComponents(cs) ==
    IF Len(cs) = 0 THEN <<>>
    ELSE IF Len(cs) = 1 THEN cs[1]
    ELSE PathPush(JoinComponents(SubSeq(cs, 1, Len(cs) - 1)), cs[Len(cs)])

\* Path::parent(): the path without its last component (empty for one component)
PathParent(path) ==
    LET cs == Components(path) IN JoinComponents(SubSeq(cs, 1, Len(cs) - 1))

\* Path::file_name(): the last component
PathFileName(path) == LET cs == Components(path) IN cs[Len(cs)]

TYPE_FILE == 1
TYPE_DIR == 2
BomHeaderSize == 512
BomInfoLen == 28

\* the magic, the tree tag and the names of the five variables
BomText ==
    [BOMStore |-> <<66, 79, 77, 83, 116, 111, 114, 101>>,
     tree |-> <<116, 114, 101, 101>>,
     BomInfo |-> <<66, 111, 109, 73, 110, 102, 111>>,
     Paths |-> <<80, 97, 116, 104, 115>>,
     HLIndex |-> <<72, 76, 73, 110, 100, 101, 120>>,
     VIndex |-> <<86, 73, 110, 100, 101, 120>>,
     Size64 |-> <<83, 105, 122, 101, 54, 52>>]

\* BomWriter::new(): block 0 is the null block
BomWriterNew == [blocks |-> << <<>> >>, vars |-> <<>>]

\* BomWriter::add_block: the writer after the push and the index returned
add_block(w, data) ==
    [w |-> [w EXCEPT !.blocks = Append(@, data)], index |-> Len(w.blocks)]

\* BomWriter::add_var
add_var(w, name, block_index) ==
    [w EXCEPT !.vars = Append(@, [name |-> name, index |-> block_index])]

\* the bytes of a tree block
TreeData(child_block, block_size, path_count) ==
    BomText.tree \o write_u32_be(1) \o write_u32_be(child_block) \o write_u32_be(block_size)
        \o write_u32_be(path_count) \o <<0>>

\* BomWriter::build_tree
build_tree(w, child_block, path_count) ==
    add_block(w, TreeData(child_block, 4096, path_count))

\* the bytes of a leaf with no entries
EmptyLeafData == write_u16_be(1) \o write_u16_be(0) \o write_u32_be(0) \o write_u32_be(0)

\* BomWriter::build_empty_tree
build_empty_tree(w) ==
    LET leaf == add_block(w, EmptyLeafData)
    IN build_tree(leaf.w, leaf.index, 0)

\* A variant that returns the index of the VIndex tree, not of its descriptor.
build_vindex_returns_tree(w) ==
    LET leaf == add_block(w, EmptyLeafData)
        tree == add_block(leaf.w, TreeData(leaf.index, 128, 0))
        desc == add_block(tree.w,
                    write_u32_be(1) \o write_u32_be(tree.index) \o write_u32_be(0) \o <<0>>)
    IN [w |-> desc.w, index |-> tree.index]

\* BomWriter::build_vindex
build_vindex(w) ==
    LET leaf == add_block(w, EmptyLeafData)
        tree == add_block(leaf.w, TreeData(leaf.index, 128, 0))
    IN add_block(tree.w,
                 write_u32_be(1) \o write_u32_be(tree.index) \o write_u32_be(0) \o <<0>>)

\* the vars table of BomWriter::build
VarsData(w) ==
    write_u32_be(Len(w.vars))
        \o Flatten([i \in 1..Len(w.vars) |->
                      write_u32_be(w.vars[i].index) \o <<Len(w.vars[i].name) % 256>>
                          \o w.vars[i].name])

RECURSIVE BlockTableEntriesSameAddress(_, _, _)
\* A variant that never advances current_offset past a block.
BlockTableEntriesSameAddress(blocks, i, current_offset) ==
    IF i >= Len(blocks) THEN <<>>
    ELSE IF i = 0
    THEN write_u32_be(0) \o write_u32_be(0)
            \o BlockTableEntriesSameAddress(blocks, 1, current_offset)
    ELSE write_u32_be(current_offset) \o write_u32_be(Len(blocks[i + 1]))
            \o BlockTableEntriesSameAddress(blocks, i + 1, current_offset)

RECURSIVE BlockTableEntries(_, _, _)
\* the loop of BomWriter::build over the blocks from index i (0-based)
BlockTableEntries(blocks, i, current_offset) ==
    IF i >= Len(blocks) THEN <<>>
    ELSE IF i = 0
    THEN write_u32_be(0) \o write_u32_be(0) \o BlockTableEntries(blocks, 1, current_offset)
    ELSE write_u32_be(current_offset) \o write_u32_be(Len(blocks[i + 1]))
            \o BlockTableEntries(blocks, i + 1,
                                 current_offset + Len(blocks[i + 1]))

\* BomWriter::build
build(w) ==
    LET vars_data == VarsData(w)
        block_data == Flatten(Tail(w.blocks))
        vars_offset == BomHeaderSize
        blocks_start == vars_offset + Len(vars_data)
        index_offset == blocks_start + Len(block_data)
        block_table ==
            write_u32_be(Len(w.blocks))
                \o BlockTableEntries(w.blocks, 0, blocks_start)
                \o write_u32_be(0)
        header ==
            BomText.BOMStore \o write_u32_be(1) \o write_u32_be(Len(w.blocks) - 1)
                \o write_u32_be(index_offset) \o write_u32_be(Len(block_table))
                \o write_u32_be(vars_offset) \o write_u32_be(Len(vars_data))
    IN header \o Fill(BomHeaderSize - Len(header), 0) \o vars_data \o block_data
          \o block_table

RECURSIVE CollectComponents(_, _, _, _, _)
\* the inner loop of create_bom over entry.path.components(), from the i-th
CollectComponents(st, entry, comps, i, current) ==
    IF i > Len(comps) THEN st
    ELSE LET current_str == PathPush(current, comps[i])
             st2 == IF current_str \in DOMAIN st.path_ids
                    THEN st
                    ELSE [path_ids |-> (current_str :> st.next_id) @@ st.path_ids,
                          all_paths |->
                              Append(st.all_paths,
                                     [path |-> current_str,
                                      entry |-> IF current_str = entry.path
                                                THEN <<entry>> ELSE <<>>]),
                          next_id |-> st.next_id + 1]
         IN CollectComponents(st2, entry, comps, i + 1, current_str)

RECURSIVE CollectPaths(_, _, _)
\* the loop of create_bom over the entries, from the k-th
CollectPaths(st, entries, k) ==
    IF k > Len(entries) THEN st
    ELSE CollectPaths(
             CollectComponents(st, entries[k], Components(entries[k].path), 1, <<>>),
             entries, k + 1)

\* create_bom: path_ids and all_paths after the collection loop
AllPaths(entries) ==
    CollectPaths([path_ids |-> (<<Dot>> :> 1),
                  all_paths |-> <<[path |-> <<Dot>>, entry |-> <<>>]>>,
                  next_id |-> 2],
                 entries, 1)

\* A variant that takes every path for an implicit directory.
PathInfo2AlwaysImplicit(maybe_entry) ==
    <<TYPE_DIR, 1>> \o write_u16_be(3) \o write_u16_be(16877)
        \o write_u32_be(0) \o write_u32_be(80) \o write_u32_be(0) \o write_u32_be(0)
        \o <<1>> \o write_u32_be(0) \o write_u32_be(0)

\* create_bom: the 21 bytes of a PathInfo2 block (0o40755 = 16877,
\* 0o170000 = 61440, 0o040000 = 16384)
PathInfo2(maybe_entry) ==
    IF Len(maybe_entry) = 1
    THEN LET entry == maybe_entry[1]
             is_dir == ((entry.mode \div 4096) % 16) * 4096 = 16384
         IN <<IF is_dir THEN TYPE_DIR ELSE TYPE_FILE, 1>> \o write_u16_be(3)
               \o write_u16_be(entry.mode % 65536)
               \o write_u32_be(entry.uid) \o write_u32_be(entry.gid)
               \o write_u32_be(0) \o write_u32_be(entry.size)
               \o <<1>> \o write_u32_be(0) \o write_u32_be(0)
    ELSE <<TYPE_DIR, 1>> \o write_u16_be(3) \o write_u16_be(16877)
            \o write_u32_be(0) \o write_u32_be(80) \o write_u32_be(0) \o write_u32_be(0)
            \o <<1>> \o write_u32_be(0) \o write_u32_be(0)

\* A variant that hangs every path but the root under the root.
ParentIdAlwaysRoot(path_ids, path_str) == IF path_str = <<Dot>> THEN 0 ELSE 1

\* create_bom: the parent id written into a BOMFile block
ParentId(path_ids, path_str) ==
    IF path_str = <<Dot>> THEN 0
    ELSE LET parent == PathParent(path_str)
         IN IF Len(parent) = 0 THEN 1
            ELSE IF parent \in DOMAIN path_ids THEN path_ids[parent] ELSE 1

\* create_bom: the bytes of a BOMFile block
BomFileData(path_ids, path_str) ==
    write_u32_be(ParentId(path_ids, path_str))
        \o (IF path_str = <<Dot>> THEN <<Dot>> ELSE PathFileName(path_str))
        \o <<0>>

RECURSIVE AddBlocks(_, _, _, _)
\* One of create_bom's loops over all_paths: a block per path, datas[k] its
\* bytes, and the map from the path's id to the block's index.
AddBlocks(acc, st, datas, k) ==
    IF k > Len(datas) THEN acc
    ELSE LET id == st.path_ids[st.all_paths[k].path]
             b == add_block(acc.w, datas[k])
         IN AddBlocks([w |-> b.w, map |-> (id :> b.index) @@ acc.map], st, datas, k + 1)

\* A variant that writes the leaf's pairs as (BOMFile, PathInfo1).
PathsLeafDataSwapped(st, info1, files) ==
    write_u16_be(1) \o write_u16_be(Len(st.all_paths)) \o write_u32_be(0) \o write_u32_be(0)
        \o Flatten([k \in 1..Len(st.all_paths) |->
                      LET id == st.path_ids[st.all_paths[k].path]
                      IN write_u32_be(files[id]) \o write_u32_be(info1[id])])

\* create_bom: the bytes of the Paths leaf
PathsLeafData(st, info1, files) ==
    write_u16_be(1) \o write_u16_be(Len(st.all_paths)) \o write_u32_be(0) \o write_u32_be(0)
        \o Flatten([k \in 1..Len(st.all_paths) |->
                      LET id == st.path_ids[st.all_paths[k].path]
                      IN write_u32_be(info1[id]) \o write_u32_be(files[id])])

\* A variant that records the number of entries, not of paths.
BomInfoDataCountsEntries(entries, n_paths) ==
    write_u32_be(1) \o write_u32_be(Len(entries) + 1) \o write_u32_be(1) \o Fill(16, 0)

\* create_bom: the bytes of the BomInfo block
BomInfoData(entries, n_paths) ==
    write_u32_be(1) \o write_u32_be(n_paths) \o write_u32_be(1) \o Fill(16, 0)

\* A variant that adds the variables in alphabetical order.
AddVarsAlphabetical(w, bom_info, paths, hl, v, size64) ==
    add_var(add_var(add_var(add_var(add_var(w,
        BomText.BomInfo, bom_info), BomText.HLIndex, hl), BomText.Paths, paths), BomText.Size64, size64),
        BomText.VIndex, v)

\* create_bom: the five add_var calls
AddVars(w, bom_info, paths, hl, v, size64) ==
    add_var(add_var(add_var(add_var(add_var(w,
        BomText.BomInfo, bom_info), BomText.Paths, paths), BomText.HLIndex, hl), BomText.VIndex, v),
        BomText.Size64, size64)

\* create_bom
create_bom(entries) ==
    IF Len(entries) = 0 THEN [kind |-> "BomError", bytes |-> <<>>]
    ELSE
    LET placeholder == add_block(BomWriterNew, Fill(BomInfoLen, 0))
        st == AllPaths(entries)
        n == Len(st.all_paths)
        info2_data == [k \in 1..n |-> PathInfo2(st.all_paths[k].entry)]
        info2 == AddBlocks([w |-> placeholder.w, map |-> <<>>], st, info2_data, 1)
        info1_data ==
            [k \in 1..n |->
                LET id == st.path_ids[st.all_paths[k].path]
                IN write_u32_be(id) \o write_u32_be(info2.map[id])]
        info1 == AddBlocks([w |-> info2.w, map |-> <<>>], st, info1_data, 1)
        file_data == [k \in 1..n |-> BomFileData(st.path_ids, st.all_paths[k].path)]
        files == AddBlocks([w |-> info1.w, map |-> <<>>], st, file_data, 1)
        paths_leaf == add_block(files.w, PathsLeafData(st, info1.map, files.map))
        paths_tree == build_tree(paths_leaf.w, paths_leaf.index, n)
        hl_index == build_empty_tree(paths_tree.w)
        v_index == build_vindex(hl_index.w)
        size64 == build_empty_tree(v_index.w)
        filled == [size64.w EXCEPT
                     !.blocks[placeholder.index + 1] = BomInfoData(entries, n)]
        writer == AddVars(filled, placeholder.index, paths_tree.index, hl_index.index,
                          v_index.index, size64.index)
    IN [kind |-> "Ok", bytes |-> build(writer)]

(***************************************************************************)
(* The caller of create_bom.                                               *)
(***************************************************************************)
\* "a", "b", "a/b", "b/a", "a/b/a", "a/a/b"
BomPaths ==
    {<<97>>, <<98>>, <<97, 47, 98>>, <<98, 47, 97>>, <<97, 47, 98, 47, 97>>,
     <<97, 47, 97, 47, 98>>}

\* mode, uid, gid, size: a file (0o100755) and a directory (0o040700)
BomAttrs ==
    {[mode |-> 33261, uid |-> 501, gid |-> 20, size |-> 50000],
     [mode |-> 16832, uid |-> 502, gid |-> 0, size |-> 0]}

BomEntrySet ==
    {[path |-> p, mode |-> a.mode, uid |-> a.uid, gid |-> a.gid, size |-> a.size] :
        p \in BomPaths, a \in BomAttrs}

RECURSIVE SeqsUpTo(_, _)
\* the sequences over S of length at most n
SeqsUpTo(S, n) ==
    IF n = 0 THEN {<<>>}
    ELSE LET shorter == SeqsUpTo(S, n - 1)
         IN shorter \cup {Append(q, x) : q \in shorter, x \in S}

BomInit ==
    /\ bomEntries \in SeqsUpTo(BomEntrySet, MaxBomEntries)
    /\ bomOut = [kind |-> "None", bytes |-> <<>>]
    /\ bomAllPaths = 0
    /\ bomCounts = NoCounts
    /\ NonBomIdle

CreateBom ==
    /\ bomOut.kind = "None"
    /\ bomOut' = create_bom(bomEntries)
    /\ UNCHANGED <<bomEntries, bomAllPaths, bomCounts, nonBomVars>>

BomNext == CreateBom

SpecBom == BomInit /\ [][BomNext]_vars

(***************************************************************************)
(* Reading a BOM back, as the tests of macos/bom.rs do.                    *)
(***************************************************************************)
\* read_u32_be of the tests: offset counts from 0
read_u32_be(data, offset) ==
    data[offset + 1] * 16777216 + data[offset + 2] * 65536 + data[offset + 3] * 256
        + data[offset + 4]

read_u16_be(data, offset) == data[offset + 1] * 256 + data[offset + 2]

\* &data[from..to]
Slice(data, from, to) == SubSeq(data, from + 1, to)

BomIndexOffset(bom) == read_u32_be(bom, 16)
BomVarsOffset(bom) == read_u32_be(bom, 24)
BomVarsLength(bom) == read_u32_be(bom, 28)

RECURSIVE DecodeVarEntries(_, _, _)
\* the vars table's entries from offset on, count of them
DecodeVarEntries(vars_data, offset, count) ==
    IF count = 0 \/ offset + 5 > Len(vars_data) THEN <<>>
    ELSE LET name_len == vars_data[offset + 5]
         IN <<[index |-> read_u32_be(vars_data, offset),
               name |-> Slice(vars_data, offset + 5, offset + 5 + name_len)]>>
                \o DecodeVarEntries(vars_data, offset + 5 + name_len, count - 1)

\* the variables of a BOM, in file order
BomVariables(bom) ==
    LET vars_data == Slice(bom, BomVarsOffset(bom), BomVarsOffset(bom) + BomVarsLength(bom))
    IN DecodeVarEntries(vars_data, 4, read_u32_be(vars_data, 0))

\* the bytes of the block with the given index, by the block table
BomBlock(bom, index) ==
    LET entry == BomIndexOffset(bom) + 4 + index * 8
        addr == read_u32_be(bom, entry)
    IN Slice(bom, addr, addr + read_u32_be(bom, entry + 4))

\* the block a variable points to
BomVarBlock(bom, name) ==
    LET vs == BomVariables(bom)
        i == CHOOSE j \in 1..Len(vs) : vs[j].name = name
    IN BomBlock(bom, vs[i].index)

\* number_of_paths of the BomInfo block
BomInfoPathCount(bom) == read_u32_be(BomVarBlock(bom, BomText.BomInfo), 4)

\* the PathInfo2 block of the id-th pair of the Paths leaf
BomPathInfo2(bom, id) ==
    LET tree == BomVarBlock(bom, BomText.Paths)
        leaf == BomBlock(bom, read_u32_be(tree, 8))
        info1 == BomBlock(bom, read_u32_be(leaf, 12 + (id - 1) * 8))
    IN BomBlock(bom, read_u32_be(info1, 4))

\* every component prefix of a path
PathPrefixes(path) ==
    LET cs == Components(path)
    IN {JoinComponents(SubSeq(cs, 1, k)) : k \in 1..Len(cs)}

AllPrefixes(entries) == UNION {PathPrefixes(entries[k].path) : k \in 1..Len(entries)}

DistinctPaths(entries) ==
    \A i, j \in 1..Len(entries) : i # j => entries[i].path # entries[j].path

(***************************************************************************)
(* The counts create_bom writes once all_paths holds a given number of     *)
(* paths: a BOM of more than 65535 paths is too large to enumerate with    *)
(* its entries, so the blocks that carry a count are written for a path    *)
(* list of the given length.                                               *)
(***************************************************************************)
\* the name of the k-th top-level file, five letters of a..p, and its inverse
NthPath(k) ==
    <<97 + ((k \div 65536) % 16), 97 + ((k \div 4096) % 16), 97 + ((k \div 256) % 16),
      97 + ((k \div 16) % 16), 97 + (k % 16)>>

PathNumber(p) ==
    IF p = <<Dot>> THEN 1
    ELSE (p[1] - 97) * 65536 + (p[2] - 97) * 4096 + (p[3] - 97) * 256 + (p[4] - 97) * 16
            + (p[5] - 97)

\* path_ids, all_paths and next_id after the collection loop of create_bom
\* over the n - 1 top-level files NthPath(2) .. NthPath(n): the k-th path
\* gets the id k
CollectedPaths(n) ==
    [path_ids |-> [p \in {<<Dot>>} \cup {q \in [1..5 -> 97..112] : PathNumber(q) \in 2..n} |->
                     PathNumber(p)],
     all_paths |-> [k \in 1..n |->
                      [path |-> IF k = 1 THEN <<Dot>> ELSE NthPath(k), entry |-> <<>>]],
     next_id |-> n + 1]

\* the lengths of all_paths the counts are written for
BomPathCounts == 1..MaxPathCount \cup {65535, 65536}

BomCountsInit ==
    /\ bomAllPaths \in BomPathCounts
    /\ bomCounts = NoCounts
    /\ bomEntries = <<>>
    /\ bomOut = [kind |-> "None", bytes |-> <<>>]
    /\ NonBomIdle

\* create_bom from the Paths leaf on: block 1 is BomInfo, then come the n
\* PathInfo2, the n PathInfo1 and the n BOMFile blocks, the leaf and the tree
WritePathCounts ==
    /\ bomCounts = NoCounts
    /\ \E st \in {CollectedPaths(bomAllPaths)} :
       \E info1 \in {[id \in 1..bomAllPaths |-> 1 + bomAllPaths + id]} :
       \E files \in {[id \in 1..bomAllPaths |-> 1 + 2 * bomAllPaths + id]} :
       \E leaf \in {PathsLeafData(st, info1, files)} :
       \E tree \in {TreeData(2 + 3 * bomAllPaths, 4096, Len(st.all_paths))} :
       \E info \in {BomInfoData(<<>>, Len(st.all_paths))} :
          bomCounts' = [leaf_count |-> read_u16_be(leaf, 2),
                        pairs |-> (Len(leaf) - 12) \div 8,
                        path_count |-> read_u32_be(tree, 16),
                        number_of_paths |-> read_u32_be(info, 4)]
    /\ UNCHANGED <<bomEntries, bomOut, bomAllPaths, nonBomVars>>

BomCountsNext == WritePathCounts

SpecBomCounts == BomCountsInit /\ [][BomCountsNext]_vars

(***************************************************************************)
(* Properties of macos/bom.rs, checked under SpecBom.                      *)
(***************************************************************************)

\* C4: for every non-empty entry list create_bom returns bytes that begin
\* with BOMStore, have version 1 and vars_offset 512, whose vars table holds
\* exactly the 5 variables BomInfo, Paths, HLIndex, VIndex, Size64 in that
\* order, and whose block table starts with the pair (0, 0).
C4_BomHeader ==
    (Len(bomEntries) > 0 /\ bomOut.kind # "None") =>
        /\ bomOut.kind = "Ok"
        /\ LET bom == bomOut.bytes
               vs == BomVariables(bom)
           IN /\ Take(bom, 8) = BomText.BOMStore
              /\ read_u32_be(bom, 8) = 1
              /\ BomVarsOffset(bom) = 512
              /\ read_u32_be(bom, BomVarsOffset(bom)) = 5
              /\ [i \in 1..Len(vs) |-> vs[i].name]
                    = <<BomText.BomInfo, BomText.Paths, BomText.HLIndex, BomText.VIndex, BomText.Size64>>
              /\ BomVarsLength(bom) = 4 + SumStride([i \in 1..Len(vs) |-> 5 + Len(vs[i].name)], 1, 1)
              /\ read_u32_be(bom, BomIndexOffset(bom) + 4) = 0
              /\ read_u32_be(bom, BomIndexOffset(bom) + 8) = 0

\* A BOM of two entries has been built.
C4_Witness ==
    /\ Len(bomEntries) = 2
    /\ bomOut.kind = "Ok"
    /\ Len(BomVariables(bomOut.bytes)) = 5

\* C5: the number of paths in the BomInfo block is 1 plus the number of
\* distinct component prefixes of the input paths; for a single entry nested
\* d directories deep it is d + 2.
C5_PathCount ==
    bomOut.kind = "Ok" =>
        /\ BomInfoPathCount(bomOut.bytes) = 1 + Cardinality(AllPrefixes(bomEntries))
        /\ Len(bomEntries) = 1 =>
              BomInfoPathCount(bomOut.bytes) = Len(Components(bomEntries[1].path)) + 1

\* Two entries that share a parent directory: 4 paths with the root.
C5_Witness ==
    /\ bomOut.kind = "Ok"
    /\ Len(bomEntries) = 2
    /\ bomEntries[1].path = <<97, 47, 98, 47, 97>>
    /\ bomEntries[2].path = <<97, 47, 98>>
    /\ BomInfoPathCount(bomOut.bytes) = 4

\* C6: for every entry list with pairwise distinct paths, in any order, the
\* PathInfo2 block of the id of an entry's path carries that entry's type,
\* mode, uid, gid and size, also when the path was first reached as a parent
\* component of an entry supplied earlier.
C6_EntryBound ==
    (bomOut.kind = "Ok" /\ DistinctPaths(bomEntries)) =>
        \A k \in 1..Len(bomEntries) :
            LET e == bomEntries[k]
                info2 == BomPathInfo2(bomOut.bytes, AllPaths(bomEntries).path_ids[e.path])
            IN /\ info2[1] = (IF (e.mode \div 4096) % 16 = 4 THEN TYPE_DIR ELSE TYPE_FILE)
               /\ read_u16_be(info2, 4) = e.mode
               /\ read_u32_be(info2, 6) = e.uid
               /\ read_u32_be(info2, 10) = e.gid
               /\ read_u32_be(info2, 18) = e.size

\* C27: the count field of the Paths leaf equals the number of
\* (PathInfo1, BOMFile) index pairs that follow it, the path_count of the
\* Paths tree and number_of_paths in BomInfo, also when there are more than
\* 65535 paths.
C27_LeafCount ==
    bomCounts # NoCounts =>
        /\ bomCounts.leaf_count = bomCounts.pairs
        /\ bomCounts.leaf_count = bomCounts.path_count
        /\ bomCounts.leaf_count = bomCounts.number_of_paths

\* numberOfBlockTablePointers, and the address and length of the k-th entry
BomTotalEntries(bom) == read_u32_be(bom, BomIndexOffset(bom))
BomBlockAddress(bom, k) == read_u32_be(bom, BomIndexOffset(bom) + 4 + k * 8)
BomBlockLength(bom, k) == read_u32_be(bom, BomIndexOffset(bom) + 8 + k * 8)

\* the byte ranges [lo, hi) of the vars table, the non-null blocks and the index
BomRanges(bom) ==
    <<[lo |-> BomVarsOffset(bom), hi |-> BomVarsOffset(bom) + BomVarsLength(bom)]>>
        \o [k \in 1..(BomTotalEntries(bom) - 1) |->
              [lo |-> BomBlockAddress(bom, k),
               hi |-> BomBlockAddress(bom, k) + BomBlockLength(bom, k)]]
        \o <<[lo |-> BomIndexOffset(bom), hi |-> BomIndexOffset(bom) + read_u32_be(bom, 20)]>>

\* C22: in every BOM returned by create_bom the header's non-null block
\* count is total_entries - 1, the k-th non-null block starts at
\* 512 + vars_length + the lengths of the non-null blocks before it, the
\* vars, block and index ranges lie inside the file and do not overlap,
\* index_offset is the end of the block data, and the file is
\* index_offset + index_length bytes long.
C22_BlockTableLayout ==
    bomOut.kind = "Ok" =>
        LET bom == bomOut.bytes
            total == BomTotalEntries(bom)
            lengths == [k \in 1..(total - 1) |-> BomBlockLength(bom, k)]
            ranges == BomRanges(bom)
        IN /\ read_u32_be(bom, 12) = total - 1
           /\ \A k \in 1..(total - 1) :
                 BomBlockAddress(bom, k)
                    = 512 + BomVarsLength(bom) + SumStride(Take(lengths, k - 1), 1, 1)
           /\ \A i \in 1..Len(ranges) :
                 /\ 512 <= ranges[i].lo
                 /\ ranges[i].lo < ranges[i].hi
                 /\ ranges[i].hi <= Len(bom)
           /\ \A i, j \in 1..Len(ranges) :
                 i < j => ranges[i].hi <= ranges[j].lo
           /\ BomIndexOffset(bom) = 512 + BomVarsLength(bom) + SumStride(lengths, 1, 1)
           /\ Len(bom) = BomIndexOffset(bom) + read_u32_be(bom, 20)

\* A BOM of two nested entries: 1 + 3 * 4 + 2 + 2 + 3 + 2 non-null blocks.
C22_Witness ==
    /\ bomOut.kind = "Ok"
    /\ Len(bomEntries) = 2
    /\ BomInfoPathCount(bomOut.bytes) = 4
    /\ BomTotalEntries(bomOut.bytes) = 23
    /\ BomBlockAddress(bomOut.bytes, 2) = BomBlockAddress(bomOut.bytes, 1) + 28

\* the Paths leaf, and the blocks its id-th pair lists
BomPathsLeaf(bom) == BomBlock(bom, read_u32_be(BomVarBlock(bom, BomText.Paths), 8))
BomPathInfo1(bom, id) == BomBlock(bom, read_u32_be(BomPathsLeaf(bom), 12 + (id - 1) * 8))
BomFileBlock(bom, id) == BomBlock(bom, read_u32_be(BomPathsLeaf(bom), 16 + (id - 1) * 8))

\* C23: the BOMFile block of id 1 has parent_id 0 and name '.'; for every
\* other id the parent_id is the id assigned to the path's parent (1 for a
\* single-component path) and the name is the last path component followed
\* by one NUL byte; every parent id is smaller than the child's id.
C23_ParentLinks ==
    bomOut.kind = "Ok" =>
        LET bom == bomOut.bytes
            st == AllPaths(bomEntries)
        IN \A id \in 1..BomInfoPathCount(bom) :
              LET file == BomFileBlock(bom, id)
                  parent_id == read_u32_be(file, 0)
                  name == Slice(file, 4, Len(file))
                  path == CHOOSE p \in DOMAIN st.path_ids : st.path_ids[p] = id
                  comps == Components(path)
              IN /\ parent_id < id
                 /\ IF id = 1
                    THEN parent_id = 0 /\ name = <<Dot, 0>>
                    ELSE /\ name = comps[Len(comps)] \o <<0>>
                         /\ parent_id = (IF Len(comps) = 1 THEN 1
                                         ELSE st.path_ids[JoinComponents(
                                                  SubSeq(comps, 1, Len(comps) - 1))])

\* A BOM whose third path lies two directories below the root.
C23_Witness ==
    /\ bomOut.kind = "Ok"
    /\ Len(bomEntries) >= 1
    /\ bomEntries[1].path = <<97, 47, 98, 47, 97>>
    /\ read_u32_be(BomFileBlock(bomOut.bytes, 4), 0) = 3
    /\ read_u32_be(BomFileBlock(bomOut.bytes, 3), 0) = 2
    /\ read_u32_be(BomFileBlock(bomOut.bytes, 2), 0) = 1

\* the index a variable holds
BomVarIndex(bom, name) ==
    LET vs == BomVariables(bom)
    IN vs[CHOOSE j \in 1..Len(vs) : vs[j].name = name].index

\* a tree block: the tag, and a child that is a leaf
BomIsTree(bom, index, block_size) ==
    LET tree == BomBlock(bom, index)
        child == read_u32_be(tree, 8)
    IN /\ index \in 1..(BomTotalEntries(bom) - 1)
       /\ Len(tree) = 21
       /\ Take(tree, 4) = BomText.tree
       /\ read_u32_be(tree, 12) = block_size
       /\ child \in 1..(BomTotalEntries(bom) - 1)
       /\ Len(BomBlock(bom, child)) >= 12
       /\ read_u16_be(BomBlock(bom, child), 0) = 1

\* Every stored block index refers to an existing non-null block of the
\* expected kind, a PathInfo2 block being info2_length bytes long.
BomReferencesHold(info2_length) ==
    bomOut.kind = "Ok" =>
        LET bom == bomOut.bytes
            st == AllPaths(bomEntries)
            total == BomTotalEntries(bom)
            desc == BomVarBlock(bom, BomText.VIndex)
            leaf == BomPathsLeaf(bom)
        IN /\ BomVarIndex(bom, BomText.BomInfo) = 1
           /\ Len(BomBlock(bom, 1)) = 28
           /\ \A name \in {BomText.Paths, BomText.HLIndex, BomText.Size64} :
                 BomIsTree(bom, BomVarIndex(bom, name), 4096)
           /\ BomVarIndex(bom, BomText.VIndex) \in 1..(total - 1)
           /\ Len(desc) = 13
           /\ Take(desc, 4) # BomText.tree
           /\ BomIsTree(bom, read_u32_be(desc, 4), 128)
           /\ Len(leaf) = 12 + 8 * Len(st.all_paths)
           /\ \A id \in 1..Len(st.all_paths) :
                 LET i1 == read_u32_be(leaf, 12 + (id - 1) * 8)
                     i2 == read_u32_be(leaf, 16 + (id - 1) * 8)
                     info1 == BomBlock(bom, i1)
                     path == CHOOSE p \in DOMAIN st.path_ids : st.path_ids[p] = id
                 IN /\ i1 \in 1..(total - 1)
                    /\ i2 \in 1..(total - 1)
                    /\ Len(info1) = 8
                    /\ read_u32_be(info1, 0) = id
                    /\ read_u32_be(info1, 4) \in 1..(total - 1)
                    /\ Len(BomBlock(bom, read_u32_be(info1, 4))) = info2_length
                    /\ BomBlock(bom, read_u32_be(info1, 4))[1] \in {TYPE_FILE, TYPE_DIR}
                    /\ read_u16_be(BomBlock(bom, read_u32_be(info1, 4)), 2) = 3
                    /\ BomBlock(bom, i2) = BomFileData(st.path_ids, path)

\* C26 as stated: every stored block index refers to an existing non-null
\* block of the expected kind: BomInfo is the 28-byte block 1, VIndex the
\* 13-byte descriptor of a tree with block_size 128, every tree's child a
\* leaf, each PathInfo1 holds its id and the index of that id's 21-byte
\* PathInfo2, and the Paths leaf lists per id, in id order, the PathInfo1
\* and BOMFile blocks of that id.
C26_BlockReferencesAsStated == BomReferencesHold(21)

\* C26 amended: the same, the PathInfo2 block of an id being the 31 bytes
\* its eleven fields add up to.
C26_BlockReferences == BomReferencesHold(31)

\* A BOM of three paths whose VIndex variable holds the last block but two.
C26_Witness ==
    /\ bomOut.kind = "Ok"
    /\ BomInfoPathCount(bomOut.bytes) = 3
    /\ BomVarIndex(bomOut.bytes, BomText.VIndex) = BomTotalEntries(bomOut.bytes) - 3
    /\ Len(BomPathInfo1(bomOut.bytes, 3)) = 8
    /\ Len(BomPathInfo2(bomOut.bytes, 3)) = 31

(***************************************************************************)
(* Texts, numbers and encodings shared by the XML documents.               *)
(***************************************************************************)
RECURSIVE ToDecimal(_)
\* u64::to_string / usize::to_string
ToDecimal(n) ==
    IF n < 10 THEN <<48 + n>> ELSE Append(ToDecimal(n \div 10), 48 + (n % 10))

RECURSIVE DigitsValue(_, _)
\* the value of a run of ASCII digits, read from the left with acc so far
DigitsValue(text, acc) ==
    IF Len(text) = 0 THEN acc
    ELSE DigitsValue(Tail(text), acc * 10 + (Head(text) - 48))

\* str::parse::<u64>: an optional '+', then one or more digits; <<>> is Err
ParseDecimal(text) ==
    LET digits == IF Len(text) > 0 /\ text[1] = 43 THEN Tail(text) ELSE text
    IN IF Len(digits) = 0 \/ \E i \in 1..Len(digits) : digits[i] < 48 \/ digits[i] > 57
       THEN <<>>
       ELSE <<DigitsValue(digits, 0)>>

\* one lower-case hexadecimal digit
HexDigit(v) == IF v < 10 THEN 48 + v ELSE 87 + v

\* hex::encode
HexEncode(bytes) ==
    [i \in 1..(2 * Len(bytes)) |->
        LET b == bytes[(i + 1) \div 2]
        IN HexDigit(IF i % 2 = 1 THEN b \div 16 ELSE b % 16)]

\* the value of a hexadecimal digit, 16 if it is none
HexValue(c) ==
    IF c >= 48 /\ c <= 57 THEN c - 48
    ELSE IF c >= 97 /\ c <= 102 THEN c - 87
    ELSE IF c >= 65 /\ c <= 70 THEN c - 55
    ELSE 16

\* hex::decode; <<>> is Err, <<bytes>> is Ok(bytes)
HexDecode(text) ==
    IF Len(text) % 2 # 0 \/ \E i \in 1..Len(text) : HexValue(text[i]) = 16
    THEN <<>>
    ELSE <<[i \in 1..(Len(text) \div 2) |->
               16 * HexValue(text[2 * i - 1]) + HexValue(text[2 * i])]>>

RECURSIVE SumRange(_, _, _)
\* s[lo] + ... + s[hi], by halving
SumRange(s, lo, hi) ==
    IF lo > hi THEN 0
    ELSE IF lo = hi THEN s[lo]
    ELSE LET mid == (lo + hi) \div 2
         IN SumRange(s, lo, mid) + SumRange(s, mid + 1, hi)

\* the positions lo..hi, in order
Positions(lo, hi) == [k \in 1..(hi - lo + 1) |-> lo + k - 1]

\* the first position >= i of s that holds ch, Len(s) + 1 if there is none
FindFrom(s, i, ch) ==
    LET hits == SelectSeq(Positions(i, Len(s)), LAMBDA j : s[j] = ch)
    IN IF Len(hits) = 0 THEN Len(s) + 1 ELSE hits[1]

\* b' ' | b'\r' | b'\n' | b'\t'
IsXmlWhitespace(c) == c \in {32, 13, 10, 9}

\* trim_text(true): s without its leading and trailing whitespace
TrimText(s) ==
    LET keep == SelectSeq(Positions(1, Len(s)), LAMBDA j : ~IsXmlWhitespace(s[j]))
    IN IF Len(keep) = 0 THEN <<>> ELSE SubSeq(s, keep[1], keep[Len(keep)])

(***************************************************************************)
(* quick_xml::Writer with indentation, as generate_toc_xml and             *)
(* generate_detection_xml drive it.  An event is a record: Start and       *)
(* Empty carry a name and attributes, Text the unescaped content, End a    *)
(* name, Decl nothing.                                                     *)
(***************************************************************************)
\* quick_xml::escape::escape for one character
EscapeChar(c) ==
    IF c = 60 THEN <<38, 108, 116, 59>>  \* "&lt;"
    ELSE IF c = 62 THEN <<38, 103, 116, 59>>  \* "&gt;"
    ELSE IF c = 38 THEN <<38, 97, 109, 112, 59>>  \* "&amp;"
    ELSE IF c = 39 THEN <<38, 97, 112, 111, 115, 59>>  \* "&apos;"
    ELSE IF c = 34 THEN <<38, 113, 117, 111, 116, 59>>  \* "&quot;"
    ELSE <<c>>

\* BytesText::new(content): the escaped content
Escape(text) == Flatten([i \in 1..Len(text) |-> EscapeChar(text[i])])

\* BytesStart::push_attribute: ' key="value"'
AttrText(attr) == <<32>> \o attr[1] \o <<61, 34>> \o Escape(attr[2]) \o <<34>>

\* Event::Start, Event::Empty, Event::End and Event::Decl
TagEv(t, name, attrs) == [t |-> t, name |-> name, attrs |-> attrs, text |-> <<>>]

\* Event::Text(BytesText::new(text))
TextEv(text) == [t |-> "Text", name |-> <<>>, attrs |-> <<>>, text |-> text]

\* the change of nesting depth an event makes
DepthDelta(ev) == IF ev.t = "Start" THEN 1 ELSE IF ev.t = "End" THEN -1 ELSE 0

RECURSIVE Depths(_, _, _, _)
\* the nesting depth before each of the events lo..hi, d0 before the first,
\* by halving
Depths(evs, lo, hi, d0) ==
    IF lo > hi THEN <<>>
    ELSE IF lo = hi THEN <<d0>>
    ELSE LET mid == (lo + hi) \div 2
             left == Depths(evs, lo, mid, d0)
         IN left \o Depths(evs, mid + 1, hi, left[Len(left)] + DepthDelta(evs[mid]))

\* Writer::write_wrapped: what it appends
write_wrapped(w, before, value, after) ==
    (IF w.should_line_break THEN <<10>> \o Fill(2 * w.level, 32) ELSE <<>>)
        \o before \o value \o after

\* Writer::write_event: what it appends to the output, for a writer whose
\* indentation level and should_line_break are those of w
write_event(w, ev) ==
    LET tag == ev.name \o Flatten([i \in 1..Len(ev.attrs) |-> AttrText(ev.attrs[i])])
    IN IF ev.t = "Start" THEN write_wrapped(w, <<60>>, tag, <<62>>)
       ELSE IF ev.t = "End"
       THEN write_wrapped([w EXCEPT !.level = w.level - 1], <<60, 47>>, ev.name, <<62>>)
       ELSE IF ev.t = "Empty" THEN write_wrapped(w, <<60>>, tag, <<47, 62>>)
       ELSE IF ev.t = "Text" THEN Escape(ev.text)
       ELSE write_wrapped(w, <<60, 63>>, <<120, 109, 108, 32, 118, 101, 114, 115, 105, 111, 110, 61, 34, 49, 46, 48, 34, 32, 101, 110, 99, 111, 100, 105, 110, 103, 61, 34, 85, 84, 70, 45, 56, 34>>, <<63, 62>>)

\* The output of a writer made by Writer::new_with_indent(Vec::new(), b' ', 2)
\* after the write_event calls evs: Start grows the indentation after it is
\* written, End shrinks it before, and every event but Text asks for a line
\* break before the next tag.
WriteEvents(evs) ==
    Once({Flatten([i \in 1..Len(evs) |->
                     write_event([level |-> level[i],
                                  should_line_break |-> i > 1 /\ evs[i - 1].t # "Text"],
                                 evs[i])]) :
            level \in {Depths(evs, 1, Len(evs), 0)}})

\* write_simple_element / write_element: <tag>content</tag>
write_simple_element(tag, content) == <<TagEv("Start", tag, <<>>), TextEv(content), TagEv("End", tag, <<>>)>>

(***************************************************************************)
(* quick_xml::Reader.  A read event is a record: Start, Empty, End and     *)
(* Decl carry the text between the angle brackets, Text the raw            *)
(* (still escaped) content.                                                *)
(***************************************************************************)
\* the event of the tag whose text between the angle brackets is body
TagEvent(body) ==
    IF Len(body) > 0 /\ body[1] = 63 THEN [t |-> "Decl", body |-> body]
    ELSE IF Len(body) > 0 /\ body[1] = 47 THEN [t |-> "End", body |-> Tail(body)]
    ELSE IF Len(body) > 0 /\ body[Len(body)] = 47
    THEN [t |-> "Empty", body |-> SubSeq(body, 1, Len(body) - 1)]
    ELSE [t |-> "Start", body |-> body]

\* the Text event of the characters from..to, none if trimming leaves nothing
TextEvents(xml, from, to, trim) ==
    LET raw == SubSeq(xml, from, to)
        text == IF trim THEN TrimText(raw) ELSE raw
    IN IF Len(text) = 0 THEN <<>> ELSE <<[t |-> "Text", body |-> text]>>

\* The events read_event_into yields up to Eof; trim is trim_text.  Every
\* '<' opens a tag that runs to the next '>' (the documents read hold no
\* comment, CDATA section or '<' inside a tag).
ReadEvents(xml, trim) ==
    Once({LET n == Len(opens)
              close == [k \in 1..n |->
                           FindFrom(SubSeq(xml, 1,
                                           IF k < n THEN opens[k + 1] - 1 ELSE Len(xml)),
                                    opens[k] + 1, 62)]
          IN IF n = 0 THEN TextEvents(xml, 1, Len(xml), trim)
             ELSE TextEvents(xml, 1, opens[1] - 1, trim)
                     \o Flatten([k \in 1..n |->
                            Once({<<TagEvent(SubSeq(xml, opens[k] + 1, at - 1))>>
                                     \o TextEvents(xml, at + 1,
                                                   IF k < n THEN opens[k + 1] - 1
                                                   ELSE Len(xml), trim) :
                                    at \in {close[k]}})]) :
            opens \in {SelectSeq(Positions(1, Len(xml)), LAMBDA j : xml[j] = 60)}})

\* BytesStart::name: the tag's text up to the first whitespace
TagName(body) == SubSeq(body, 1, FindFrom(body, 1, 32) - 1)

\* the character an entity name stands for, 0 if the name is unknown
EntityChar(name) ==
    IF name = <<108, 116>> THEN 60
    ELSE IF name = <<103, 116>> THEN 62
    ELSE IF name = <<97, 109, 112>> THEN 38
    ELSE IF name = <<97, 112, 111, 115>> THEN 39
    ELSE IF name = <<113, 117, 111, 116>> THEN 34
    ELSE 0

RECURSIVE Unescape(_, _)
\* BytesText::unescape from position i on (named entities); <<>> is Err,
\* <<text>> is Ok(text)
Unescape(raw, i) ==
    IF i > Len(raw) THEN << <<>> >>
    ELSE LET amp == FindFrom(raw, i, 38)
         IN IF amp > Len(raw) THEN <<SubSeq(raw, i, Len(raw))>>
            ELSE LET semi == FindFrom(raw, amp + 1, 59)
                     c == EntityChar(SubSeq(raw, amp + 1, semi - 1))
                     rest == IF semi > Len(raw) \/ c = 0 THEN <<>>
                             ELSE Unescape(raw, semi + 1)
                 IN IF Len(rest) = 0 THEN <<>>
                    ELSE <<SubSeq(raw, i, amp - 1) \o <<c>> \o rest[1]>>

\* the value of attribute key in a tag's text, <<>> if it is absent
AttrValue(body, key) ==
    LET pat == <<32>> \o key \o <<61, 34>>
        starts == {i \in 1..(Len(body) - Len(pat) + 1) :
                      SubSeq(body, i, i + Len(pat) - 1) = pat}
    IN IF starts = {} THEN <<>>
       ELSE LET s == (CHOOSE i \in starts : \A k \in starts : i <= k) + Len(pat)
            IN <<SubSeq(body, s, FindFrom(body, s, 34) - 1)>>

(***************************************************************************)
(* macos/xar.rs.  The flate2 and sha1 crates are modelled by functions     *)
(* with the same shape: ZlibEncoder emits a zlib stream that holds one     *)
(* stored block (header, LEN, NLEN, the bytes, Adler-32), and the digest   *)
(* is a 20-byte positional checksum of all the bytes it is given.          *)
(***************************************************************************)
XAR_MAGIC == <<120, 97, 114, 33>>  \* "xar!"
XAR_HEADER_SIZE == 28
XAR_VERSION == 1
CKSUM_SHA1 == 1
SHA1_SIZE == 20

\* the element names, attribute names and fixed texts of the TOC
XarText ==
    [xar |-> <<120, 97, 114>>,  \* "xar"
     toc |-> <<116, 111, 99>>,  \* "toc"
     checksum |-> <<99, 104, 101, 99, 107, 115, 117, 109>>,  \* "checksum"
     style |-> <<115, 116, 121, 108, 101>>,  \* "style"
     sha1 |-> <<115, 104, 97, 49>>,  \* "sha1"
     offset |-> <<111, 102, 102, 115, 101, 116>>,  \* "offset"
     size |-> <<115, 105, 122, 101>>,  \* "size"
     length |-> <<108, 101, 110, 103, 116, 104>>,  \* "length"
     file |-> <<102, 105, 108, 101>>,  \* "file"
     id |-> <<105, 100>>,  \* "id"
     name |-> <<110, 97, 109, 101>>,  \* "name"
     type |-> <<116, 121, 112, 101>>,  \* "type"
     directory |-> <<100, 105, 114, 101, 99, 116, 111, 114, 121>>,  \* "directory"
     data |-> <<100, 97, 116, 97>>,  \* "data"
     extracted_checksum |-> <<101, 120, 116, 114, 97, 99, 116, 101, 100, 45, 99, 104, 101, 99, 107, 115, 117, 109>>,  \* "extracted-checksum"
     archived_checksum |-> <<97, 114, 99, 104, 105, 118, 101, 100, 45, 99, 104, 101, 99, 107, 115, 117, 109>>,  \* "archived-checksum"
     encoding |-> <<101, 110, 99, 111, 100, 105, 110, 103>>,  \* "encoding"
     octet_stream |-> <<97, 112, 112, 108, 105, 99, 97, 116, 105, 111, 110, 47, 111, 99, 116, 101, 116, 45, 115, 116, 114, 101, 97, 109>>]  \* "application/octet-stream"

\* u64::to_be_bytes, for values below 2^32
write_u64_be(val) == <<0, 0, 0, 0>> \o write_u32_be(val)

\* A variant that stores the two TOC lengths in the other order.
XarHeaderToBytesSwapped(toc_compressed_length, toc_uncompressed_length) ==
    XAR_MAGIC \o write_u16_be(XAR_HEADER_SIZE) \o write_u16_be(XAR_VERSION)
        \o write_u64_be(toc_uncompressed_length) \o write_u64_be(toc_compressed_length)
        \o write_u32_be(CKSUM_SHA1)

\* XarHeader::new(..).to_bytes()
XarHeaderToBytes(toc_compressed_length, toc_uncompressed_length) ==
    XAR_MAGIC \o write_u16_be(XAR_HEADER_SIZE) \o write_u16_be(XAR_VERSION)
        \o write_u64_be(toc_compressed_length) \o write_u64_be(toc_uncompressed_length)
        \o write_u32_be(CKSUM_SHA1)

\* Adler-32 of data as four big-endian bytes
Adler32(data) ==
    LET n == Len(data)
        a == (1 + SumRange(data, 1, n)) % 65521
        b == (n + SumRange([i \in 1..n |-> ((n - i + 1) * data[i]) % 65521], 1, n)) % 65521
    IN write_u16_be(b) \o write_u16_be(a)

\* ZlibEncoder::new(Vec::new(), Compression::default()), write_all, finish
ZlibEncode(data) ==
    LET len == Len(data)
    IN <<120, 156, 1, len % 256, len \div 256, 255 - (len % 256), 255 - (len \div 256)>>
          \o data \o Adler32(data)

\* Sha1::new(), update, finalize
Sha1Digest(data) ==
    [i \in 1..SHA1_SIZE |->
        LET picked == SelectSeq(Positions(1, Len(data)),
                                LAMBDA j : j % SHA1_SIZE = i % SHA1_SIZE)
        IN ((IF i = 1 THEN Len(data) ELSE 0) + 77
            + SumRange([k \in 1..Len(picked) |-> data[picked[k]]], 1, Len(picked))) % 256]

\* XarBuilder::compute_sha1
compute_sha1(data) == HexEncode(Sha1Digest(data))

\* rsplit('/').next(): the text after the last '/'
RSplitName(path) ==
    LET slashes == {i \in 1..Len(path) : path[i] = Slash}
    IN IF slashes = {} THEN path
       ELSE SubSeq(path, (CHOOSE i \in slashes : \A k \in slashes : k <= i) + 1, Len(path))

\* rsplit_once('/').map(|(p, _)| p): <<>> is None, <<parent>> is Some(parent)
RSplitOnceParent(path) ==
    LET slashes == {i \in 1..Len(path) : path[i] = Slash}
    IN IF slashes = {} THEN <<>>
       ELSE <<SubSeq(path, 1, (CHOOSE i \in slashes : \A k \in slashes : k <= i) - 1)>>

\* A variant that takes the first entry with the parent's path, whatever its type.
find_parent_id_of_any_type(entries, path) ==
    LET parent == RSplitOnceParent(path)
        hits == IF Len(parent) = 0 THEN {}
                ELSE {k \in 1..Len(entries) : entries[k].path = parent[1]}
    IN IF hits = {} THEN <<>>
       ELSE <<entries[CHOOSE k \in hits : \A h \in hits : k <= h].id>>

\* XarBuilder::find_parent_id: <<>> is None, <<id>> is Some(id)
find_parent_id(entries, path) ==
    LET parent == RSplitOnceParent(path)
        hits == IF Len(parent) = 0 THEN {}
                ELSE {k \in 1..Len(entries) :
                         entries[k].path = parent[1] /\ entries[k].entry_type = "Directory"}
    IN IF hits = {} THEN <<>>
       ELSE <<entries[CHOOSE k \in hits : \A h \in hits : k <= h].id>>

\* the XarEntry pushed by add_file and add_directory
NewXarEntry(entries, next_id, path, entry_type, data) ==
    [name |-> RSplitName(path), path |-> path, entry_type |-> entry_type, data |-> data,
     id |-> next_id, parent_id |-> find_parent_id(entries, path)]

\* write_toc_checksum
write_toc_checksum ==
    <<TagEv("Start", XarText.checksum, <<<<XarText.style, XarText.sha1>>>>)>>
        \o write_simple_element(XarText.offset, <<48>>)
        \o write_simple_element(XarText.size, <<50, 48>>)
        \o <<TagEv("End", XarText.checksum, <<>>)>>

\* write_toc_entries: the <data> section of a file entry
TocDataEvents(entry, current_offset) ==
    LET checksum == compute_sha1(entry.data)
    IN <<TagEv("Start", XarText.data, <<>>)>>
          \o write_simple_element(XarText.offset, ToDecimal(current_offset))
          \o write_simple_element(XarText.size, ToDecimal(Len(entry.data)))
          \o write_simple_element(XarText.length, ToDecimal(Len(entry.data)))
          \o <<TagEv("Start", XarText.extracted_checksum, <<<<XarText.style, XarText.sha1>>>>), TextEv(checksum),
               TagEv("End", XarText.extracted_checksum, <<>>)>>
          \o <<TagEv("Start", XarText.archived_checksum, <<<<XarText.style, XarText.sha1>>>>), TextEv(checksum),
               TagEv("End", XarText.archived_checksum, <<>>)>>
          \o <<TagEv("Empty", XarText.encoding, <<<<XarText.style, XarText.octet_stream>>>>), TagEv("End", XarText.data, <<>>)>>

RECURSIVE write_toc_entries(_, _, _, _)
\* write_toc_entries, its loop taken from the k-th entry: the events written
\* and the offset returned
write_toc_entries(entries, parent_id, heap_offset, k) ==
    IF k > Len(entries) THEN [events |-> <<>>, offset |-> heap_offset]
    ELSE IF entries[k].parent_id # parent_id
    THEN write_toc_entries(entries, parent_id, heap_offset, k + 1)
    ELSE LET entry == entries[k]
             head == <<TagEv("Start", XarText.file, <<<<XarText.id, ToDecimal(entry.id)>>>>)>>
                        \o write_simple_element(XarText.name, entry.name)
                        \o write_simple_element(XarText.type,
                               IF entry.entry_type = "File" THEN XarText.file ELSE XarText.directory)
         IN Once({Once({[events |-> head \o body.events \o <<TagEv("End", XarText.file, <<>>)>>
                                      \o rest.events,
                         offset |-> rest.offset] :
                          rest \in {write_toc_entries(entries, parent_id, body.offset, k + 1)}}) :
                    body \in {IF entry.entry_type = "File"
                              THEN [events |-> TocDataEvents(entry, heap_offset),
                                    offset |-> heap_offset + Len(entry.data)]
                              ELSE write_toc_entries(entries, <<entry.id>>, heap_offset, 1)}})

\* generate_toc_xml
generate_toc_xml(entries) ==
    Once({WriteEvents(events) :
            events \in
                {<<TagEv("Decl", <<>>, <<>>), TagEv("Start", XarText.xar, <<>>),
                   TagEv("Start", XarText.toc, <<>>)>>
                    \o write_toc_checksum
                    \o write_toc_entries(entries, <<>>, SHA1_SIZE, 1).events
                    \o <<TagEv("End", XarText.toc, <<>>), TagEv("End", XarText.xar, <<>>)>>}})

\* finish: the file data written to the heap, from the k-th entry
RECURSIVE HeapFileData(_, _)
HeapFileData(entries, k) ==
    IF k > Len(entries) THEN <<>>
    ELSE (IF entries[k].entry_type = "File" THEN entries[k].data ELSE <<>>)
            \o HeapFileData(entries, k + 1)

\* A variant that takes the heap checksum over the uncompressed TOC.
TocChecksumInputUncompressed(toc_uncompressed, toc_compressed) == toc_uncompressed

\* finish: the bytes the heap checksum is computed over
TocChecksumInput(toc_uncompressed, toc_compressed) == toc_compressed

\* XarBuilder::finish: the bytes written
finish(entries) ==
    Once({Once({Once({LET header == XarHeaderToBytes(Len(toc_compressed),
                                                      Len(toc_uncompressed))
                      IN IF Len(toc_checksum_bytes) = 0
                         THEN [kind |-> "XarError", bytes |-> header \o toc_compressed]
                         ELSE [kind |-> "Ok",
                               bytes |-> header \o toc_compressed \o toc_checksum_bytes[1]
                                            \o HeapFileData(entries, 1)] :
                      toc_checksum_bytes \in
                          {HexDecode(compute_sha1(TocChecksumInput(toc_uncompressed,
                                                                   toc_compressed)))}}) :
                  toc_compressed \in {ZlibEncode(toc_uncompressed)}}) :
            toc_uncompressed \in {generate_toc_xml(entries)}})

(***************************************************************************)
(* The caller of XarBuilder.                                               *)
(***************************************************************************)
\* "d", "d/e"
XarDirPaths == {<<100>>, <<100, 47, 101>>}

\* "x", "d/y", "d/e/z" with data, and an empty file at "d"
XarFiles ==
    {<<<<120>>, <<1, 2, 3>>>>, <<<<100, 47, 121>>, <<9>>>>, <<<<100, 47, 101, 47, 122>>, <<7, 7>>>>, <<<<100>>, <<>>>>}

XarInit ==
    /\ xarEntries = <<>>
    /\ xarNextId = 1
    /\ xarOut = [kind |-> "None", bytes |-> <<>>]
    /\ NonXarIdle

\* XarBuilder::add_file
XarAddFile ==
    /\ xarOut.kind = "None"
    /\ Len(xarEntries) < MaxXarEntries
    /\ \E f \in XarFiles :
         xarEntries' = Append(xarEntries, NewXarEntry(xarEntries, xarNextId, f[1], "File", f[2]))
    /\ xarNextId' = xarNextId + 1
    /\ UNCHANGED <<xarOut, nonXarVars>>

\* XarBuilder::add_directory
XarAddDirectory ==
    /\ xarOut.kind = "None"
    /\ Len(xarEntries) < MaxXarEntries
    /\ \E p \in XarDirPaths :
         xarEntries' = Append(xarEntries,
                              NewXarEntry(xarEntries, xarNextId, p, "Directory", <<>>))
    /\ xarNextId' = xarNextId + 1
    /\ UNCHANGED <<xarOut, nonXarVars>>

\* XarBuilder::finish
XarFinish ==
    /\ xarOut.kind = "None"
    /\ xarOut' = finish(xarEntries)
    /\ UNCHANGED <<xarEntries, xarNextId, nonXarVars>>

XarNext ==
    \/ XarAddFile
    \/ XarAddDirectory
    \/ XarFinish

SpecXar == XarInit /\ [][XarNext]_vars

(***************************************************************************)
(* Reading a XAR archive back: the header, the zlib stream of the TOC,     *)
(* the heap, and the <file> elements of the TOC.                           *)
(***************************************************************************)
\* u64::from_be_bytes at a 0-based offset, for values below 2^31
read_u64_be(data, offset) ==
    IF SubSeq(data, offset + 1, offset + 4) = <<0, 0, 0, 0>>
    THEN read_u32_be(data, offset + 4) ELSE -1

\* The zlib stream that starts at 0-based offset start: its length in the
\* archive and the bytes it inflates to; ok is FALSE if it is malformed.
ZlibDecode(bytes, start) ==
    IF Len(bytes) < start + 11 \/ SubSeq(bytes, start + 1, start + 3) # <<120, 156, 1>>
    THEN [ok |-> FALSE, length |-> 0, data |-> <<>>]
    ELSE LET len == bytes[start + 4] + 256 * bytes[start + 5]
             nlen == bytes[start + 6] + 256 * bytes[start + 7]
             data == IF Len(bytes) >= start + 11 + len
                     THEN SubSeq(bytes, start + 8, start + 7 + len) ELSE <<>>
         IN [ok |-> /\ len + nlen = 65535
                    /\ Len(bytes) >= start + 11 + len
                    /\ SubSeq(bytes, start + 8 + len, start + 11 + len) = Adler32(data),
             length |-> len + 11, data |-> data]

\* the heap of an archive: everything after the header and the TOC stream
XarHeap(bytes) == Drop(bytes, XAR_HEADER_SIZE + ZlibDecode(bytes, XAR_HEADER_SIZE).length)

\* the element that encloses event i: the last Start before i that is one
\* level higher, 0 if there is none
Enclosing(evs, depth, i) ==
    LET above == SelectSeq(Positions(1, i - 1),
                           LAMBDA j : evs[j].t = "Start" /\ depth[j] = depth[i] - 1)
    IN IF Len(above) = 0 THEN 0 ELSE above[Len(above)]

\* the text of the child element called name of the element opened by event
\* i: <<>> if there is no such child, <<text>> otherwise
ChildText(evs, depth, i, name) ==
    LET hits == SelectSeq(Positions(i + 1, Len(evs) - 1),
                          LAMBDA j : /\ evs[j].t = "Start"
                                     /\ TagName(evs[j].body) = name
                                     /\ depth[j] = depth[i] + 1
                                     /\ Enclosing(evs, depth, j) = i)
    IN IF Len(hits) = 0 THEN <<>>
       ELSE IF evs[hits[1] + 1].t = "Text" THEN Unescape(evs[hits[1] + 1].body, 1)
       ELSE << <<>> >>

\* the number a child element holds, <<>> if it is absent or no number
ChildNumber(evs, depth, i, name) ==
    LET text == ChildText(evs, depth, i, name)
    IN IF Len(text) = 0 THEN <<>> ELSE ParseDecimal(text[1])

\* The <file> elements of a TOC in document order, each with its id, the id
\* of the <file> element it is nested in, its name and type, and the
\* offset, size and length of its <data> element (<<>> where absent).
TocFiles(evs) ==
    Once({
    LET IdOf(j) == LET id == AttrValue(evs[j].body, XarText.id)
                   IN IF Len(id) = 0 THEN <<>> ELSE ParseDecimal(id[1])
    IN [k \in 1..Len(files) |->
          LET i == files[k]
              up == Enclosing(evs, depth, i)
              data == SelectSeq(Positions(i + 1, Len(evs)),
                                LAMBDA j : /\ evs[j].t = "Start"
                                           /\ TagName(evs[j].body) = XarText.data
                                           /\ depth[j] = depth[i] + 1
                                           /\ Enclosing(evs, depth, j) = i)
          IN [id |-> IdOf(i),
              parent |-> IF up # 0 /\ TagName(evs[up].body) = XarText.file THEN IdOf(up) ELSE <<>>,
              name |-> ChildText(evs, depth, i, XarText.name),
              type |-> ChildText(evs, depth, i, XarText.type),
              offset |-> IF Len(data) = 0 THEN <<>>
                         ELSE ChildNumber(evs, depth, data[1], XarText.offset),
              size |-> IF Len(data) = 0 THEN <<>>
                       ELSE ChildNumber(evs, depth, data[1], XarText.size),
              length |-> IF Len(data) = 0 THEN <<>>
                         ELSE ChildNumber(evs, depth, data[1], XarText.length)]] :
        depth \in {Depths(evs, 1, Len(evs), 0)},
        files \in {SelectSeq(Positions(1, Len(evs)),
                             LAMBDA j : /\ evs[j].t = "Start"
                                        /\ TagName(evs[j].body) = XarText.file)}})

\* the <file> elements of the TOC an archive carries
XarTocFiles(bytes) ==
    Once({TocFiles(evs) : evs \in {ReadEvents(ZlibDecode(bytes, XAR_HEADER_SIZE).data, TRUE)}})

\* the <file> elements that have a <data> section
XarTocData(bytes) == SelectSeq(XarTocFiles(bytes), LAMBDA f : Len(f.offset) = 1)

(***************************************************************************)
(* Properties of macos/xar.rs, checked under SpecXar.                      *)
(***************************************************************************)

\* C8: after any sequence of add_file and add_directory calls and finish,
\* every file's raw bytes lie in the heap at the range [offset, offset + size)
\* that its <data> element in the TOC declares, the first declared offset is
\* 20, and the declared ranges follow each other without gap or overlap, in
\* whatever order files and directories were added.
C8_HeapMatchesToc ==
    xarOut.kind = "Ok" =>
        LET heap == XarHeap(xarOut.bytes)
            decl == XarTocData(xarOut.bytes)
        IN /\ Len(decl) = Cardinality({k \in 1..Len(xarEntries) :
                                          xarEntries[k].entry_type = "File"})
           /\ Len(decl) > 0 => decl[1].offset = <<SHA1_SIZE>>
           /\ \A k \in 1..Len(decl) :
                /\ Len(decl[k].id) = 1 /\ Len(decl[k].size) = 1
                /\ decl[k].id[1] \in 1..Len(xarEntries)
                /\ Slice(heap, decl[k].offset[1], decl[k].offset[1] + decl[k].size[1])
                      = xarEntries[decl[k].id[1]].data
                /\ k > 1 => decl[k].offset[1] = decl[k - 1].offset[1] + decl[k - 1].size[1]

\* C9: every archive finish writes starts with "xar!", header_size 28,
\* version 1 and checksum algorithm 1; the header's two lengths are those of
\* the zlib stream written after it and of the text it inflates to; and the
\* 20 bytes after that stream are the SHA-1 of the stream's bytes.
C9_XarHeader ==
    xarOut.kind = "Ok" =>
        LET bytes == xarOut.bytes
            toc == ZlibDecode(bytes, XAR_HEADER_SIZE)
        IN /\ SubSeq(bytes, 1, 4) = <<120, 97, 114, 33>>  \* "xar!"
           /\ read_u16_be(bytes, 4) = 28
           /\ read_u16_be(bytes, 6) = 1
           /\ read_u32_be(bytes, 24) = 1
           /\ toc.ok
           /\ read_u64_be(bytes, 8) = toc.length
           /\ read_u64_be(bytes, 16) = Len(toc.data)
           /\ toc.data = generate_toc_xml(xarEntries)
           /\ Slice(bytes, 28 + toc.length, 28 + toc.length + 20)
                 = Sha1Digest(Slice(bytes, 28, 28 + toc.length))

\* An archive with a nested file has been written: its TOC stream and its
\* text have different lengths, and the heap holds checksum and file data.
C9_Witness ==
    /\ xarOut.kind = "Ok"
    /\ Len(xarEntries) = 3
    /\ \E k \in 1..Len(xarEntries) : Len(xarEntries[k].parent_id) = 1
    /\ read_u64_be(xarOut.bytes, 8) # read_u64_be(xarOut.bytes, 16)
    /\ Len(XarHeap(xarOut.bytes)) > SHA1_SIZE

\* C24: each entry is serialized in the TOC inside the <file> element of
\* the directory entry whose path is the entry's parent path, siblings in
\* insertion order, whether the directory was added before or after the
\* entry; only entries whose parent path was never added as a directory are
\* top-level.
C24_NestedUnderParentPath ==
    xarOut.kind = "Ok" =>
        \A toc \in {XarTocFiles(xarOut.bytes)} :
            /\ \A i \in 1..Len(toc) :
                  /\ Len(toc[i].id) = 1
                  /\ toc[i].id[1] \in 1..Len(xarEntries)
                  /\ LET parent == RSplitOnceParent(xarEntries[toc[i].id[1]].path)
                         dirs == {k \in 1..Len(xarEntries) :
                                     /\ Len(parent) = 1
                                     /\ xarEntries[k].path = parent[1]
                                     /\ xarEntries[k].entry_type = "Directory"}
                     IN IF dirs = {} THEN toc[i].parent = <<>>
                        ELSE Len(toc[i].parent) = 1 /\ toc[i].parent[1] \in dirs
            /\ \A i, j \in 1..Len(toc) :
                  (i < j /\ toc[i].parent = toc[j].parent) => toc[i].id[1] < toc[j].id[1]

\* C28: the ids are 1, 2, 3, ... in call order, every parent_id is the id
\* of a directory entry added earlier, and every added entry appears
\* exactly once in the generated TOC, also when a path was added twice.
C28_EntriesOnceInToc ==
    /\ xarNextId = Len(xarEntries) + 1
    /\ \A k \in 1..Len(xarEntries) :
          /\ xarEntries[k].id = k
          /\ Len(xarEntries[k].parent_id) = 1 =>
                /\ xarEntries[k].parent_id[1] \in 1..(k - 1)
                /\ xarEntries[xarEntries[k].parent_id[1]].entry_type = "Directory"
    /\ xarOut.kind = "Ok" =>
          \A toc \in {XarTocFiles(xarOut.bytes)} :
              /\ Len(toc) = Len(xarEntries)
              /\ \A k \in 1..Len(xarEntries) :
                    Cardinality({i \in 1..Len(toc) : toc[i].id = <<k>>}) = 1

\* The directory "d" was added twice and then the file "d/y", which the TOC
\* shows once, inside the first "d".
C28_Witness ==
    /\ xarOut.kind = "Ok"
    /\ Len(xarEntries) = 3
    /\ xarEntries[1].path = xarEntries[2].path
    /\ xarEntries[2].entry_type = "Directory"
    /\ xarEntries[3].parent_id = <<1>>
    /\ \E toc \in {XarTocFiles(xarOut.bytes)} :
          /\ Len(toc) = 3
          /\ toc[2].id = <<3>>
          /\ toc[2].parent = <<1>>
(***************************************************************************)
(* models/detection.rs and packager/metadata.rs: Detection.xml.            *)
(***************************************************************************)
\* one character of the standard Base64 alphabet
Base64Char(v) ==
    IF v < 26 THEN 65 + v
    ELSE IF v < 52 THEN 71 + v
    ELSE IF v < 62 THEN v - 4
    ELSE IF v = 62 THEN 43
    ELSE 47

\* the value of a Base64 character, 64 if it is none
Base64Value(c) ==
    IF c >= 65 /\ c <= 90 THEN c - 65
    ELSE IF c >= 97 /\ c <= 122 THEN c - 71
    ELSE IF c >= 48 /\ c <= 57 THEN c + 4
    ELSE IF c = 43 THEN 62
    ELSE IF c = 47 THEN 63
    ELSE 64

\* base64 STANDARD.encode: four characters for every three bytes, padded
\* with '='
Base64Encode(bytes) ==
    LET n == Len(bytes)
        At(j) == IF j <= n THEN bytes[j] ELSE 0
    IN [p \in 1..(4 * ((n + 2) \div 3)) |->
          LET g == (p - 1) \div 4
              k == (p - 1) % 4
              b0 == At(3 * g + 1)
              b1 == At(3 * g + 2)
              b2 == At(3 * g + 3)
          IN IF k = 0 THEN Base64Char(b0 \div 4)
             ELSE IF k = 1 THEN Base64Char((b0 % 4) * 16 + b1 \div 16)
             ELSE IF k = 2
             THEN (IF 3 * g + 2 > n THEN 61 ELSE Base64Char((b1 % 16) * 4 + b2 \div 64))
             ELSE (IF 3 * g + 3 > n THEN 61 ELSE Base64Char(b2 % 64))]

\* base64 STANDARD.decode: canonical padding required, no stray characters,
\* no non-zero trailing bits; <<>> is Err, <<bytes>> is Ok(bytes)
Base64Decode(text) ==
    LET len == Len(text)
        pad == IF len > 0 /\ text[len] = 61
               THEN (IF len > 1 /\ text[len - 1] = 61 THEN 2 ELSE 1)
               ELSE 0
        V(p) == IF p > len - pad THEN 0 ELSE Base64Value(text[p])
        n == 3 * (len \div 4) - pad
    IN IF \/ len % 4 # 0
          \/ \E p \in 1..(len - pad) : Base64Value(text[p]) = 64
          \/ pad = 1 /\ V(len - 1) % 4 # 0
          \/ pad = 2 /\ V(len - 2) % 16 # 0
       THEN <<>>
       ELSE <<[j \in 1..n |->
                 LET g == (j - 1) \div 3
                     k == (j - 1) % 3
                 IN IF k = 0 THEN V(4 * g + 1) * 4 + V(4 * g + 2) \div 16
                    ELSE IF k = 1 THEN (V(4 * g + 2) % 16) * 16 + V(4 * g + 3) \div 4
                    ELSE (V(4 * g + 3) % 4) * 64 + V(4 * g + 4)]>>

\* EncryptionInfo::set_*_from_base64: decode and check the length; <<>> is
\* Err, <<bytes>> is Ok with the bytes stored
SetFromBase64(b64, length) ==
    LET decoded == Base64Decode(b64)
    IN IF Len(decoded) = 0 THEN <<>>
       ELSE IF Len(decoded[1]) # length THEN <<>>
       ELSE decoded

\* the element and attribute names and the fixed texts of Detection.xml
DetText ==
    [ApplicationInfo |-> <<65, 112, 112, 108, 105, 99, 97, 116, 105, 111, 110, 73, 110, 102, 111>>,  \* "ApplicationInfo"
     xmlns_xsd |-> <<120, 109, 108, 110, 115, 58, 120, 115, 100>>,  \* "xmlns:xsd"
     xsd |-> <<104, 116, 116, 112, 58, 47, 47, 119, 119, 119, 46, 119, 51, 46, 111, 114, 103, 47, 50, 48, 48, 49, 47, 88, 77, 76, 83, 99, 104, 101, 109, 97>>,  \* "http://www.w3.org/2001/XMLSchema"
     xmlns_xsi |-> <<120, 109, 108, 110, 115, 58, 120, 115, 105>>,  \* "xmlns:xsi"
     xsi |-> <<104, 116, 116, 112, 58, 47, 47, 119, 119, 119, 46, 119, 51, 46, 111, 114, 103, 47, 50, 48, 48, 49, 47, 88, 77, 76, 83, 99, 104, 101, 109, 97, 45, 105, 110, 115, 116, 97, 110, 99, 101>>,  \* "http://www.w3.org/2001/XMLSchema-instance"
     ToolVersion |-> <<84, 111, 111, 108, 86, 101, 114, 115, 105, 111, 110>>,  \* "ToolVersion"
     TOOL_VERSION |-> <<49, 46, 56, 46, 54, 46, 48>>,  \* "1.8.6.0"
     Name |-> <<78, 97, 109, 101>>,  \* "Name"
     UnencryptedContentSize |-> <<85, 110, 101, 110, 99, 114, 121, 112, 116, 101, 100, 67, 111, 110, 116, 101, 110, 116, 83, 105, 122, 101>>,  \* "UnencryptedContentSize"
     FileName |-> <<70, 105, 108, 101, 78, 97, 109, 101>>,  \* "FileName"
     SetupFile |-> <<83, 101, 116, 117, 112, 70, 105, 108, 101>>,  \* "SetupFile"
     EncryptionInfo |-> <<69, 110, 99, 114, 121, 112, 116, 105, 111, 110, 73, 110, 102, 111>>,  \* "EncryptionInfo"
     EncryptionKey |-> <<69, 110, 99, 114, 121, 112, 116, 105, 111, 110, 75, 101, 121>>,  \* "EncryptionKey"
     MacKey |-> <<77, 97, 99, 75, 101, 121>>,  \* "MacKey"
     InitializationVector |-> <<73, 110, 105, 116, 105, 97, 108, 105, 122, 97, 116, 105, 111, 110, 86, 101, 99, 116, 111, 114>>,  \* "InitializationVector"
     Mac |-> <<77, 97, 99>>,  \* "Mac"
     ProfileIdentifier |-> <<80, 114, 111, 102, 105, 108, 101, 73, 100, 101, 110, 116, 105, 102, 105, 101, 114>>,  \* "ProfileIdentifier"
     FileDigest |-> <<70, 105, 108, 101, 68, 105, 103, 101, 115, 116>>,  \* "FileDigest"
     FileDigestAlgorithm |-> <<70, 105, 108, 101, 68, 105, 103, 101, 115, 116, 65, 108, 103, 111, 114, 105, 116, 104, 109>>,  \* "FileDigestAlgorithm"
     IntunePackage |-> <<73, 110, 116, 117, 110, 101, 80, 97, 99, 107, 97, 103, 101, 46, 105, 110, 116, 117, 110, 101, 119, 105, 110>>]  \* "IntunePackage.intunewin"

\* DetectionMetadata::new
NewDetectionMetadata(setup_file, unencrypted_content_size) ==
    [name |-> setup_file,
     unencrypted_content_size |-> unencrypted_content_size,
     file_name |-> DetText.IntunePackage,
     setup_file |-> setup_file,
     encryption_info |-> NewEncryptionInfo]

\* xml.replace('\n', "\r\n")
ReplaceLfByCrLf(xml) ==
    Flatten([i \in 1..Len(xml) |-> IF xml[i] = 10 THEN <<13, 10>> ELSE <<xml[i]>>])

\* generate_detection_xml
generate_detection_xml(metadata) ==
    LET info == metadata.encryption_info
        events ==
            <<TagEv("Start", DetText.ApplicationInfo,
                    <<<<DetText.xmlns_xsd, DetText.xsd>>, <<DetText.xmlns_xsi, DetText.xsi>>,
                      <<DetText.ToolVersion, DetText.TOOL_VERSION>>>>)>>
            \o write_simple_element(DetText.Name, metadata.name)
            \o write_simple_element(DetText.UnencryptedContentSize,
                                    ToDecimal(metadata.unencrypted_content_size))
            \o write_simple_element(DetText.FileName, metadata.file_name)
            \o write_simple_element(DetText.SetupFile, metadata.setup_file)
            \o <<TagEv("Start", DetText.EncryptionInfo, <<>>)>>
            \o write_simple_element(DetText.EncryptionKey, Base64Encode(info.encryption_key))
            \o write_simple_element(DetText.MacKey, Base64Encode(info.mac_key))
            \o write_simple_element(DetText.InitializationVector, Base64Encode(info.iv))
            \o write_simple_element(DetText.Mac, Base64Encode(info.mac))
            \o write_simple_element(DetText.ProfileIdentifier, info.profile_identifier)
            \o write_simple_element(DetText.FileDigest, Base64Encode(info.file_digest))
            \o write_simple_element(DetText.FileDigestAlgorithm, info.file_digest_algorithm)
            \o <<TagEv("End", DetText.EncryptionInfo, <<>>),
                 TagEv("End", DetText.ApplicationInfo, <<>>)>>
    IN ReplaceLfByCrLf(WriteEvents(events))

\* parse_detection_xml: current_element when the i-th event is matched: the
\* name of the last Start before it, cleared by an End
CurrentElement(evs, i) ==
    LET marks == SelectSeq(Positions(1, i - 1), LAMBDA j : evs[j].t \in {"Start", "End"})
    IN IF Len(marks) = 0 THEN <<>>
       ELSE IF evs[marks[Len(marks)]].t = "Start" THEN TagName(evs[marks[Len(marks)]].body)
       ELSE <<>>

\* parse_detection_xml: the Text events in document order, each with
\* current_element and its unescaped text (<<>> if unescape fails)
MatchedTexts(evs) ==
    LET hits == SelectSeq(Positions(1, Len(evs)), LAMBDA i : evs[i].t = "Text")
    IN [k \in 1..Len(hits) |->
          [element |-> CurrentElement(evs, hits[k]),
           text |-> Unescape(evs[hits[k]].body, 1)]]

\* parse_detection_xml: [kind |-> "Ok", meta |-> the metadata] or
\* [kind |-> "XmlError", meta |-> <<>>]
parse_detection_xml(xml) ==
    LET texts == MatchedTexts(ReadEvents(xml, TRUE))
        \* the texts matched for an element, in document order
        Of(element) == SelectSeq(texts, LAMBDA m : m.element = element)
        \* what a field holds at the end: the last text assigned, else its
        \* initial value
        Last(element, initial) ==
            LET ms == Of(element)
            IN IF Len(ms) = 0 THEN initial ELSE ms[Len(ms)].text[1]
        BadNumber(element) ==
            \E k \in 1..Len(Of(element)) : Len(ParseDecimal(Of(element)[k].text[1])) = 0
        BadSecret(element, length) ==
            \E k \in 1..Len(Of(element)) :
                Len(SetFromBase64(Of(element)[k].text[1], length)) = 0
        Secret(element, length, initial) ==
            LET ms == Of(element)
            IN IF Len(ms) = 0 THEN initial
               ELSE SetFromBase64(ms[Len(ms)].text[1], length)[1]
        name == Last(DetText.Name, <<>>)
        setup_file == Last(DetText.SetupFile, <<>>)
        initial == NewEncryptionInfo
        err == [kind |-> "XmlError", meta |-> <<>>]
    IN IF \E k \in 1..Len(texts) : Len(texts[k].text) = 0 THEN err
       ELSE IF BadNumber(DetText.UnencryptedContentSize) THEN err
       ELSE IF \/ BadSecret(DetText.EncryptionKey, 32)
               \/ BadSecret(DetText.MacKey, 32)
               \/ BadSecret(DetText.InitializationVector, 16)
               \/ BadSecret(DetText.Mac, 32)
               \/ BadSecret(DetText.FileDigest, 32)
       THEN err
       ELSE IF Len(name) = 0 THEN err
       ELSE IF Len(setup_file) = 0 THEN err
       ELSE [kind |-> "Ok",
             meta |->
               [name |-> name,
                unencrypted_content_size |->
                    ParseDecimal(Last(DetText.UnencryptedContentSize, <<48>>))[1],
                file_name |-> Last(DetText.FileName, <<>>),
                setup_file |-> setup_file,
                encryption_info |->
                  [encryption_key |->
                       Secret(DetText.EncryptionKey, 32, initial.encryption_key),
                   mac_key |-> Secret(DetText.MacKey, 32, initial.mac_key),
                   iv |-> Secret(DetText.InitializationVector, 16, initial.iv),
                   mac |-> Secret(DetText.Mac, 32, initial.mac),
                   file_digest |-> Secret(DetText.FileDigest, 32, initial.file_digest),
                   profile_identifier |->
                       Last(DetText.ProfileIdentifier, initial.profile_identifier),
                   file_digest_algorithm |->
                       Last(DetText.FileDigestAlgorithm, initial.file_digest_algorithm)]]]

(***************************************************************************)
(* The caller of generate_detection_xml and parse_detection_xml.           *)
(***************************************************************************)
\* 'a', ' ', '&' and '\n'
DetNameChars == {97, 32, 38, 10}

\* the names: every text over DetNameChars of at most MaxNameLen characters
DetNames == SeqsUpTo(DetNameChars, MaxNameLen)

\* the setup file names: "s.exe", "a<b" and "my app.msi"
DetSetupFiles == {<<115, 46, 101, 120, 101>>, <<97, 60, 98>>, <<109, 121, 32, 97, 112, 112, 46, 109, 115, 105>>}

DetSizes == {0, 2048}

\* EncryptionInfo values with secrets of the fixed lengths
DetEncryptionInfos ==
    {[NewEncryptionInfo EXCEPT
        !.encryption_key = RandomBytes(32, s), !.mac_key = RandomBytes(32, s + 1),
        !.iv = RandomBytes(16, s + 2), !.mac = RandomBytes(32, s + 3),
        !.file_digest = RandomBytes(32, s + 4)] : s \in RngSeeds}

DetInit ==
    /\ detMeta \in {[NewDetectionMetadata(sf, size) EXCEPT
                        !.name = nm, !.encryption_info = info] :
                      nm \in DetNames, sf \in DetSetupFiles, size \in DetSizes,
                      info \in DetEncryptionInfos}
    /\ detXml = <<>>
    /\ detParsed = [kind |-> "None", meta |-> <<>>]
    /\ dpc = "start"
    /\ detEdit = NoEdit
    /\ NonDetIdle

\* generate_detection_xml(&metadata)
GenerateDetectionXml ==
    /\ dpc = "start"
    /\ detXml' = generate_detection_xml(detMeta)
    /\ dpc' = "generated"
    /\ UNCHANGED <<detMeta, detParsed, detEdit, nonDetVars>>

\* parse_detection_xml(&xml)
ParseDetectionXml ==
    /\ dpc \in {"generated", "composed"}
    /\ detParsed' = parse_detection_xml(detXml)
    /\ dpc' = "parsed"
    /\ UNCHANGED <<detMeta, detXml, detEdit, nonDetVars>>

DetNext ==
    \/ GenerateDetectionXml
    \/ ParseDetectionXml

SpecDetection == DetInit /\ [][DetNext]_vars

(***************************************************************************)
(* Properties of packager/metadata.rs, checked under SpecDetection.        *)
(***************************************************************************)

\* C10: for every DetectionMetadata M whose secrets have the fixed lengths,
\* whatever its name, setup file name and size,
\* parse_detection_xml(generate_detection_xml(M)) succeeds and returns a
\* value equal to M in every field.
C10_RoundTrip ==
    dpc = "parsed" => detParsed = [kind |-> "Ok", meta |-> detMeta]

(***************************************************************************)
(* Documents that were not written by generate_detection_xml: an element   *)
(* left out or left empty, a secret that is not the Base64 text of its     *)
(* length, the elements in the opposite order, an XML declaration.         *)
(***************************************************************************)
\* the elements whose text is a secret, with the length of the secret
DetSecretLength ==
    [t \in {DetText.EncryptionKey, DetText.MacKey, DetText.Mac, DetText.FileDigest} |-> 32]
        @@ (DetText.InitializationVector :> 16)

\* the ways a document is composed
DetEdits ==
    [element : {<<>>}, how : {"none"}, reversed : BOOLEAN, decl : BOOLEAN]
        \cup [element : {DetText.Name, DetText.SetupFile}, how : {"missing", "empty"},
              reversed : BOOLEAN, decl : BOOLEAN]
        \cup [element : DOMAIN DetSecretLength,
              how : {"empty", "short", "bad_char", "unpadded"},
              reversed : BOOLEAN, decl : BOOLEAN]

\* the element tag of a composed document; text is what
\* generate_detection_xml writes in it and bytes the secret behind it
ComposeElement(edit, tag, text, bytes) ==
    IF edit.element # tag THEN write_simple_element(tag, text)
    ELSE IF edit.how = "missing" THEN <<>>
    ELSE IF edit.how = "empty" THEN <<TagEv("Start", tag, <<>>), TagEv("End", tag, <<>>)>>
    ELSE IF edit.how = "short"
    THEN write_simple_element(tag, Base64Encode(Take(bytes, Len(bytes) - 1)))
    ELSE IF edit.how = "bad_char" THEN write_simple_element(tag, <<42>> \o Drop(text, 1))
    ELSE write_simple_element(tag, SelectSeq(text, LAMBDA c : c # 61))

\* the groups of events in the order of edit
InOrder(edit, groups) ==
    Flatten([k \in 1..Len(groups) |->
                IF edit.reversed THEN groups[Len(groups) + 1 - k] ELSE groups[k]])

\* the document composed from metadata as edit says
ComposeDetectionXml(metadata, edit) ==
    LET info == metadata.encryption_info
        Secret(tag, bytes) == ComposeElement(edit, tag, Base64Encode(bytes), bytes)
        Plain(tag, text) == ComposeElement(edit, tag, text, <<>>)
        secrets ==
            <<TagEv("Start", DetText.EncryptionInfo, <<>>)>>
            \o InOrder(edit,
                       <<Secret(DetText.EncryptionKey, info.encryption_key),
                         Secret(DetText.MacKey, info.mac_key),
                         Secret(DetText.InitializationVector, info.iv),
                         Secret(DetText.Mac, info.mac),
                         Plain(DetText.ProfileIdentifier, info.profile_identifier),
                         Secret(DetText.FileDigest, info.file_digest),
                         Plain(DetText.FileDigestAlgorithm, info.file_digest_algorithm)>>)
            \o <<TagEv("End", DetText.EncryptionInfo, <<>>)>>
    IN WriteEvents(
           (IF edit.decl THEN <<TagEv("Decl", <<>>, <<>>)>> ELSE <<>>)
           \o <<TagEv("Start", DetText.ApplicationInfo,
                      <<<<DetText.ToolVersion, DetText.TOOL_VERSION>>>>)>>
           \o InOrder(edit,
                      <<Plain(DetText.Name, metadata.name),
                        Plain(DetText.UnencryptedContentSize,
                              ToDecimal(metadata.unencrypted_content_size)),
                        Plain(DetText.FileName, metadata.file_name),
                        Plain(DetText.SetupFile, metadata.setup_file),
                        secrets>>)
           \o <<TagEv("End", DetText.ApplicationInfo, <<>>)>>)

\* the metadata of the composed documents: setup file "s.exe", secrets of
\* the fixed lengths
DetDocInit ==
    /\ detMeta \in {[NewDetectionMetadata(DetText.IntunePackage, size) EXCEPT
                        !.encryption_info = info] :
                      size \in DetSizes, info \in DetEncryptionInfos}
    /\ detEdit \in DetEdits
    /\ detXml = <<>>
    /\ detParsed = [kind |-> "None", meta |-> <<>>]
    /\ dpc = "start"
    /\ NonDetIdle

\* a document is composed for parse_detection_xml
ComposeDocument ==
    /\ dpc = "start"
    /\ detXml' = ComposeDetectionXml(detMeta, detEdit)
    /\ dpc' = "composed"
    /\ UNCHANGED <<detMeta, detParsed, detEdit, nonDetVars>>

DetDocNext ==
    \/ ComposeDocument
    \/ ParseDetectionXml

SpecDetectionDoc == DetDocInit /\ [][DetDocNext]_vars

(***************************************************************************)
(* Properties of parse_detection_xml, checked under SpecDetectionDoc.      *)
(***************************************************************************)

\* C21: parse_detection_xml returns XmlError when Name or SetupFile is
\* missing or empty and when the text of EncryptionKey, MacKey,
\* InitializationVector, Mac or FileDigest in the document is not the
\* standard Base64 of 32, 32, 16, 32, 32 bytes; and a document with the
\* elements in the opposite order, with or without an XML declaration,
\* parses to the metadata the plain document parses to.
C21_ParseRejects ==
    dpc = "parsed" =>
        IF detEdit.how = "none"
        THEN detParsed = parse_detection_xml(ComposeDetectionXml(detMeta, NoEdit))
        ELSE detParsed.kind = "XmlError"

(***************************************************************************)
(* packager/archive.rs and packager/mod.rs: the Intune package and unpack  *)
(* pipeline, as built for Unix (cfg(not(windows))).  A folder is a         *)
(* function from the relative paths of its files to their contents.  The   *)
(* zip crate is modelled by a container with the layout of a ZIP file      *)
(* (local records, central directory, end record) that keeps the fields    *)
(* the pipeline depends on: method, checksum, sizes, name and offset.      *)
(* Deflate is modelled by one stored block, the CRC by a positional        *)
(* checksum.                                                               *)
(***************************************************************************)
\* u16::to_le_bytes and u32::to_le_bytes, for values below 2^31
write_u16_le(val) == <<val % 256, (val \div 256) % 256>>

write_u32_le(val) ==
    <<val % 256, (val \div 256) % 256, (val \div 65536) % 256, val \div 16777216>>

\* little-endian fields at a 0-based offset
read_u16_le(data, offset) == data[offset + 1] + 256 * data[offset + 2]

read_u32_le(data, offset) ==
    data[offset + 1] + 256 * data[offset + 2] + 65536 * data[offset + 3]
        + 16777216 * data[offset + 4]

\* the checksum a ZIP record carries for the uncompressed bytes
ZipCrc(data) == Adler32(data)

\* CompressionMethod::Stored and CompressionMethod::Deflated
ZipStored == 0
ZipDeflated == 8

\* what the writer stores for data under a compression method
ZipCompress(method, data) ==
    IF method = ZipDeflated
    THEN <<1>> \o write_u16_le(Len(data)) \o write_u16_le(65535 - Len(data)) \o data
    ELSE data

\* what the reader makes of stored bytes; <<>> is Err, <<data>> is Ok(data)
ZipDecompress(method, stored) ==
    IF method = ZipStored THEN <<stored>>
    ELSE IF method # ZipDeflated \/ Len(stored) < 5 \/ stored[1] # 1 THEN <<>>
    ELSE IF \/ read_u16_le(stored, 1) + read_u16_le(stored, 3) # 65535
            \/ read_u16_le(stored, 1) # Len(stored) - 5
    THEN <<>>
    ELSE <<Drop(stored, 5)>>

\* the signatures "PK\3\4", "PK\1\2" and "PK\5\6"
ZipSig == [local |-> <<80, 75, 3, 4>>, central |-> <<80, 75, 1, 2>>, end |-> <<80, 75, 5, 6>>]

\* ZipWriter::start_file(name, options) and write_all(data): the local record
ZipLocalRecord(name, method, data) ==
    LET stored == ZipCompress(method, data)
    IN ZipSig.local \o write_u16_le(method) \o ZipCrc(data)
          \o write_u32_le(Len(stored)) \o write_u32_le(Len(data))
          \o write_u16_le(Len(name)) \o name \o stored

\* ZipWriter::new, a start_file and write_all per entry, finish
ZipWrite(entries, method) ==
    LET n == Len(entries)
        locals == [k \in 1..n |-> ZipLocalRecord(entries[k].name, method, entries[k].data)]
        offset == [k \in 1..n |-> Len(Flatten(SubSeq(locals, 1, k - 1)))]
        central ==
            [k \in 1..n |->
                ZipSig.central \o SubSeq(locals[k], 5, 20)
                    \o write_u32_le(offset[k]) \o entries[k].name]
        directory == Flatten(central)
    IN Flatten(locals) \o directory
          \o ZipSig.end \o write_u16_le(n) \o write_u32_le(Len(directory))
          \o write_u32_le(Len(Flatten(locals)))

RECURSIVE ZipReadDirectory(_, _, _)
\* ZipArchive::new: the central directory records from 0-based offset at,
\* count of them; <<>> is Err, <<entries>> is Ok
ZipReadDirectory(bytes, at, count) ==
    IF count = 0 THEN << <<>> >>
    ELSE IF Len(bytes) < at + 24 \/ SubSeq(bytes, at + 1, at + 4) # ZipSig.central THEN <<>>
    ELSE LET name_len == read_u16_le(bytes, at + 18)
             rest == IF Len(bytes) < at + 24 + name_len THEN <<>>
                     ELSE ZipReadDirectory(bytes, at + 24 + name_len, count - 1)
         IN IF Len(rest) = 0 THEN <<>>
            ELSE <<<<[name |-> SubSeq(bytes, at + 25, at + 24 + name_len),
                      method |-> read_u16_le(bytes, at + 4),
                      crc |-> SubSeq(bytes, at + 7, at + 10),
                      compressed_size |-> read_u32_le(bytes, at + 10),
                      size |-> read_u32_le(bytes, at + 14),
                      offset |-> read_u32_le(bytes, at + 20)]>> \o rest[1]>>

\* ZipArchive::new: the entries in central directory order; <<>> is Err
ZipArchiveNew(bytes) ==
    LET end == Len(bytes) - 14
    IN IF end < 0 \/ SubSeq(bytes, end + 1, end + 4) # ZipSig.end THEN <<>>
       ELSE IF read_u32_le(bytes, end + 10) + read_u32_le(bytes, end + 6) # end THEN <<>>
       ELSE ZipReadDirectory(bytes, read_u32_le(bytes, end + 10), read_u16_le(bytes, end + 4))

\* reading a ZipFile to its end: <<>> is Err, <<data>> is Ok(data)
ZipReadFile(bytes, entry) ==
    LET at == entry.offset
    IN IF Len(bytes) < at + 20 \/ SubSeq(bytes, at + 1, at + 4) # ZipSig.local THEN <<>>
       ELSE LET start == at + 20 + read_u16_le(bytes, at + 18)
            IN IF Len(bytes) < start + entry.compressed_size THEN <<>>
               ELSE LET data == ZipDecompress(entry.method,
                                    Slice(bytes, start, start + entry.compressed_size))
                    IN IF Len(data) = 0 THEN <<>>
                       ELSE IF Len(data[1]) # entry.size \/ ZipCrc(data[1]) # entry.crc
                       THEN <<>>
                       ELSE data

\* ZipArchive::by_name: the index of the entry with the name, 0 if none
ZipByName(entries, name) ==
    LET hits == SelectSeq(Positions(1, Len(entries)), LAMBDA k : entries[k].name = name)
    IN IF Len(hits) = 0 THEN 0 ELSE hits[Len(hits)]

\* the fixed texts of the pipeline
IntuneText ==
    [contents |-> <<73, 110, 116, 117, 110, 101, 87, 105, 110, 80, 97, 99, 107, 97, 103, 101, 47, 67, 111, 110, 116, 101, 110, 116, 115, 47, 73, 110, 116, 117, 110, 101, 80, 97, 99, 107, 97, 103, 101, 46, 105, 110, 116, 117, 110, 101, 119, 105, 110>>,  \* "IntuneWinPackage/Contents/IntunePackage.intunewin"
     detection |-> <<73, 110, 116, 117, 110, 101, 87, 105, 110, 80, 97, 99, 107, 97, 103, 101, 47, 77, 101, 116, 97, 100, 97, 116, 97, 47, 68, 101, 116, 101, 99, 116, 105, 111, 110, 46, 120, 109, 108>>]  \* "IntuneWinPackage/Metadata/Detection.xml"

\* a < b for byte strings, as slices compare
BytesLess(a, b) ==
    \E i \in 1..(Min(Len(a), Len(b)) + 1) :
        /\ \A j \in 1..(i - 1) : a[j] = b[j]
        /\ IF i > Len(a) THEN i <= Len(b) ELSE i <= Len(b) /\ a[i] < b[i]

\* a.relative_path.cmp(&b.relative_path) = Less: paths compare component by
\* component
PathLess(p, q) ==
    LET a == Components(p)
        b == Components(q)
    IN \E i \in 1..(Min(Len(a), Len(b)) + 1) :
          /\ \A j \in 1..(i - 1) : a[j] = b[j]
          /\ IF i > Len(a) THEN i <= Len(b) ELSE i <= Len(b) /\ BytesLess(a[i], b[i])

\* is_setup_file, cfg(not(windows))
is_setup_file(relative_path, setup_file) ==
    IF Len(Components(relative_path)) # 1 THEN FALSE ELSE relative_path = setup_file

\* collect_source_files on an existing folder: the SourcePackage files,
\* sorted, or SetupFileNotFound
collect_source_files(folder, setup_file) ==
    LET paths == DOMAIN folder
        sorted == [k \in 1..Cardinality(paths) |->
                      CHOOSE p \in paths : Cardinality({q \in paths : PathLess(q, p)}) = k - 1]
    IN IF ~\E p \in paths : is_setup_file(p, setup_file)
       THEN [kind |-> "SetupFileNotFound", files |-> <<>>]
       ELSE [kind |-> "Ok",
             files |-> [k \in 1..Len(sorted) |->
                           [relative_path |-> sorted[k], size |-> Len(folder[sorted[k]]),
                            is_setup |-> is_setup_file(sorted[k], setup_file)]]]

\* Path::exists for source_folder.join(name), for a relative name without
\* .. components: the folder itself, a file or a directory of the folder
ExistsIn(folder, name) ==
    LET a == SelectSeq(Components(name), LAMBDA c : c # <<Dot>>)
    IN \/ Len(a) = 0
       \/ \E p \in DOMAIN folder :
             LET b == Components(p)
             IN Len(a) <= Len(b) /\ SubSeq(b, 1, Len(a)) = a

\* PackageRequest::validate on a source folder that is a directory
ValidatePackageRequest(folder, setup_file) ==
    IF ExistsIn(folder, setup_file) THEN "Ok" ELSE "SetupFileNotFound"

\* relative_path.to_string_lossy().replace('\\', "/")
ZipPath(relative_path) ==
    [i \in 1..Len(relative_path) |-> IF relative_path[i] = 92 THEN Slash ELSE relative_path[i]]

\* create_inner_zip
create_inner_zip(folder, files) ==
    ZipWrite([k \in 1..Len(files) |->
                 [name |-> ZipPath(files[k].relative_path),
                  data |-> folder[files[k].relative_path]]],
             ZipDeflated)

\* the I/O step of create_outer_zip that fails, if any: File::create, the
\* writes of the first entry, the writes of the second entry
PackageFaults == {"none", "create", "write_contents", "write_detection"}

\* create_outer_zip: its result and the file at the output path afterwards;
\* existing is that file before (<<>> if there is none).  File::create
\* makes the file, and each entry reaches it as it is written.
create_outer_zip(detection_xml, encrypted_content, existing, fault) ==
    IF fault = "create" THEN [kind |-> "OutputWriteError", output |-> existing]
    ELSE IF fault = "write_contents" THEN [kind |-> "ZipError", output |-> << <<>> >>]
    ELSE IF fault = "write_detection"
    THEN [kind |-> "ZipError",
          output |-> <<ZipLocalRecord(IntuneText.contents, ZipStored, encrypted_content)>>]
    ELSE [kind |-> "Ok",
          output |-> <<ZipWrite(<<[name |-> IntuneText.contents, data |-> encrypted_content],
                                  [name |-> IntuneText.detection, data |-> detection_xml]>>,
                                ZipStored)>>]

\* package, from the creation of the inner ZIP on; draw is the RNG's draw
PackageOutput(folder, setup_file, files, existing, draw, fault) ==
    Once({Once({Once({Once({[kind |-> written.kind, output |-> written.output,
                               inner_zip |-> inner_zip] :
                              written \in {create_outer_zip(detection_xml, enc.output,
                                                            existing, fault)}}) :
                        detection_xml \in
                            {generate_detection_xml(
                                [NewDetectionMetadata(setup_file, Len(inner_zip)) EXCEPT
                                    !.encryption_info = enc.info])}}) :
                  enc \in {encrypt_content(inner_zip, draw)}}) :
            inner_zip \in {create_inner_zip(folder, files)}})

\* A variant that refuses an existing output file in every verbosity.
package_never_overwrites(folder, setup_file, verbosity, existing, draw, fault) ==
    LET Err(kind) == [kind |-> kind, output |-> existing, inner_zip |-> <<>>]
    IN IF ValidatePackageRequest(folder, setup_file) # "Ok"
       THEN Err(ValidatePackageRequest(folder, setup_file))
       ELSE Once({IF source.kind # "Ok" THEN Err(source.kind)
                  ELSE IF Len(source.files) = 0 THEN Err("SourceFolderEmpty")
                  ELSE IF Len(existing) > 0 THEN Err("OutputFileExists")
                  ELSE PackageOutput(folder, setup_file, source.files, existing, draw,
                                     fault) :
                  source \in {collect_source_files(folder, setup_file)}})

\* package: the result, the file at the output path afterwards and the
\* inner ZIP it built; existing is that file before (<<>> if there is none)
package(folder, setup_file, verbosity, existing, draw, fault) ==
    LET Err(kind) == [kind |-> kind, output |-> existing, inner_zip |-> <<>>]
    IN IF ValidatePackageRequest(folder, setup_file) # "Ok"
       THEN Err(ValidatePackageRequest(folder, setup_file))
       ELSE Once({IF source.kind # "Ok" THEN Err(source.kind)
                  ELSE IF Len(source.files) = 0 THEN Err("SourceFolderEmpty")
                  ELSE IF Len(existing) > 0 /\ verbosity = "Normal"
                  THEN Err("OutputFileExists")
                  ELSE PackageOutput(folder, setup_file, source.files, existing, draw,
                                     fault) :
                  source \in {collect_source_files(folder, setup_file)}})

\* extract_inner_zip: the folder after extraction and the counts, or the
\* error; names are joined to the output folder as they are
extract_inner_zip(decrypted_content, folder) ==
    LET archive == ZipArchiveNew(decrypted_content)
        entries == IF Len(archive) = 0 THEN <<>> ELSE archive[1]
        kept == SelectSeq(Positions(1, Len(entries)),
                          LAMBDA i : LET nm == entries[i].name
                                     IN Len(nm) = 0 \/ nm[Len(nm)] # Slash)
        data == [k \in 1..Len(kept) |-> ZipReadFile(decrypted_content, entries[kept[k]])]
        names == {entries[kept[k]].name : k \in 1..Len(kept)}
        \* a later entry of the same name overwrites an earlier one
        LastOf(nm) == CHOOSE k \in 1..Len(kept) :
                          /\ entries[kept[k]].name = nm
                          /\ \A h \in (k + 1)..Len(kept) : entries[kept[h]].name # nm
    IN IF Len(archive) = 0
       THEN [kind |-> "DecryptionError", folder |-> folder, file_count |-> 0, total_size |-> 0]
       ELSE IF \E k \in 1..Len(kept) : Len(data[k]) = 0
       THEN [kind |-> "OutputWriteError", folder |-> folder, file_count |-> 0,
             total_size |-> 0]
       ELSE [kind |-> "Ok",
             folder |-> [nm \in names \cup DOMAIN folder |->
                            IF nm \in names THEN data[LastOf(nm)][1] ELSE folder[nm]],
             file_count |-> Len(kept),
             total_size |-> SumRange([k \in 1..Len(kept) |-> Len(data[k][1])], 1, Len(kept))]

\* extract_detection_metadata: what parse_detection_xml returns, or
\* InvalidIntunewinFile
extract_detection_metadata(input, entries) ==
    LET index == ZipByName(entries, IntuneText.detection)
    IN IF index = 0 THEN [kind |-> "InvalidIntunewinFile", meta |-> <<>>]
       ELSE Once({IF Len(xml_content) = 0
                  THEN [kind |-> "InvalidIntunewinFile", meta |-> <<>>]
                  ELSE parse_detection_xml(xml_content[1]) :
                  xml_content \in {ZipReadFile(input, entries[index])}})

\* extract_encrypted_content
extract_encrypted_content(input, entries) ==
    LET index == ZipByName(entries, IntuneText.contents)
    IN IF index = 0 THEN [kind |-> "InvalidIntunewinFile", data |-> <<>>]
       ELSE Once({IF Len(content) = 0 THEN [kind |-> "InvalidIntunewinFile", data |-> <<>>]
                  ELSE [kind |-> "Ok", data |-> content[1]] :
                  content \in {ZipReadFile(input, entries[index])}})

\* an error of unpack
UnpackErr(kind, folder) ==
    [kind |-> kind, folder |-> folder, setup_file |-> <<>>, file_count |-> 0,
     total_size |-> 0]

\* unpack, from the decryption on
UnpackContent(encrypted_content, metadata, folder) ==
    Once({IF decrypted.kind # "Ok" THEN UnpackErr(decrypted.kind, folder)
          ELSE Once({IF extracted.kind # "Ok"
                     THEN UnpackErr(extracted.kind, extracted.folder)
                     ELSE [kind |-> "Ok", folder |-> extracted.folder,
                           setup_file |-> metadata.setup_file,
                           file_count |-> extracted.file_count,
                           total_size |-> extracted.total_size] :
                     extracted \in {extract_inner_zip(decrypted.data, folder)}}) :
          decrypted \in {decrypt_content(encrypted_content, metadata.encryption_info)}})

\* unpack: the UnpackResult or the error, and the output folder afterwards;
\* input is the file at input_file (<<>> if there is none)
unpack(input, folder) ==
    IF Len(input) = 0 THEN UnpackErr("InvalidIntunewinFile", folder)
    ELSE Once({IF Len(archive) = 0 THEN UnpackErr("InvalidIntunewinFile", folder)
               ELSE Once({IF metadata.kind # "Ok" THEN UnpackErr(metadata.kind, folder)
                          ELSE Once({IF content.kind # "Ok"
                                     THEN UnpackErr(content.kind, folder)
                                     ELSE UnpackContent(content.data, metadata.meta, folder) :
                                     content \in
                                         {extract_encrypted_content(input[1], archive[1])}}) :
                          metadata \in {extract_detection_metadata(input[1], archive[1])}}) :
               archive \in {ZipArchiveNew(input[1])}})

(***************************************************************************)
(* The caller of package and unpack.                                       *)
(***************************************************************************)
\* the setup file names: "s.exe", " s.exe" and "a&b.msi"
SetupNames == {<<115, 46, 101, 120, 101>>, <<32, 115, 46, 101, 120, 101>>, <<97, 38, 98, 46, 109, 115, 105>>}

\* the other files a source folder may hold: "d/c", "d.c" and the file "a\b"
OtherPaths == {<<100, 47, 99>>, <<100, 46, 99>>, <<97, 92, 98>>}

\* the contents of the setup file: every length up to MaxContentLen
FileContents == {[i \in 1..n |-> (7 * i) % 256] : n \in 0..MaxContentLen}

\* the contents of another file: empty or of length MaxContentLen
OtherContents == {<<>>, [i \in 1..MaxContentLen |-> (255 - i) % 256]}

\* the source folders: the empty folder, and the folders with a setup file
\* at the root and any of the other files
SourceFolders ==
    {<<>>} \cup
    UNION {{setup @@ others : setup \in [{s} -> FileContents], others \in [paths -> OtherContents]} :
              s \in SetupNames, paths \in SUBSET OtherPaths}

\* the setup file names of a request: the names above and "."
RequestSetupFiles == SetupNames \cup {<<46>>}

IntuneInit ==
    /\ srcFolder \in SourceFolders
    /\ pkgSetupFile \in RequestSetupFiles
    /\ pkgVerbosity = "Normal"
    /\ outputFile = <<>>
    /\ pkgResult = "None"
    /\ pkgInnerZip = <<>>
    /\ unpackFolder = <<>>
    /\ unpackResult = [kind |-> "None", setup_file |-> <<>>, file_count |-> 0,
                       total_size |-> 0]
    /\ pkgCall = NoCall
    /\ NonIntuneIdle

\* package(&request)
Package ==
    /\ pkgResult = "None"
    /\ \E draw \in KeyDraws, fault \in PackageFaults :
         \E r \in {package(srcFolder, pkgSetupFile, pkgVerbosity, outputFile, draw, fault)} :
            /\ pkgResult' = r.kind
            /\ outputFile' = r.output
            /\ pkgInnerZip' = r.inner_zip
    /\ pkgCall' = [NoCall EXCEPT !.via = "direct", !.existing = outputFile]
    /\ UNCHANGED <<srcFolder, pkgSetupFile, pkgVerbosity, unpackFolder, unpackResult,
                   nonIntuneVars>>

\* unpack(&request) of the file package wrote, into an empty folder
Unpack ==
    /\ pkgResult = "Ok"
    /\ unpackResult.kind = "None"
    /\ \E r \in {unpack(outputFile, unpackFolder)} :
          /\ unpackFolder' = r.folder
          /\ unpackResult' = [kind |-> r.kind, setup_file |-> r.setup_file,
                              file_count |-> r.file_count, total_size |-> r.total_size]
    /\ UNCHANGED <<srcFolder, pkgSetupFile, pkgVerbosity, outputFile, pkgResult,
                   pkgInnerZip, pkgCall, nonIntuneVars>>

IntuneNext ==
    \/ Package
    \/ Unpack

SpecIntune == IntuneInit /\ [][IntuneNext]_vars

(***************************************************************************)
(* Properties of the Intune pipeline, checked under SpecIntune.            *)
(***************************************************************************)

\* C3: for every source folder with the setup file at its root, unpack of
\* the file package wrote, into an empty folder, succeeds and leaves there
\* exactly the relative paths of the source folder with the same contents,
\* and UnpackResult.setup_file is the setup file name of the request.
C3_PackageUnpackRoundTrip ==
    unpackResult.kind # "None" =>
        /\ unpackResult.kind = "Ok"
        /\ unpackFolder = srcFolder
        /\ unpackResult.setup_file = pkgSetupFile

\* C11: when Intune package returns an error, no file exists at the output
\* path that did not exist before the call (here: none existed), whichever
\* step failed, a failure while the output file is written included.
C11_NoPartialOutput ==
    pkgResult \notin {"None", "Ok"} => outputFile = <<>>

\* C13: package on a source folder that exists and contains no files fails
\* with source-folder-empty, for every setup file name of the request.
C13_EmptySourceFolder ==
    (pkgResult # "None" /\ DOMAIN srcFolder = {}) => pkgResult = "SourceFolderEmpty"

\* C14: the entries of the inner ZIP appear in lexicographic order of their
\* relative path strings (with / separators).
C14_InnerZipOrder ==
    pkgResult = "Ok" =>
        LET entries == ZipArchiveNew(pkgInnerZip)[1]
        IN \A k \in 1..(Len(entries) - 1) :
              ~BytesLess(entries[k + 1].name, entries[k].name)

(***************************************************************************)
(* package with a file at the output path, called by the create command    *)
(* and by interactive mode.                                                *)
(***************************************************************************)
\* a file someone left at the output path: "OLD"
OldPackage == <<79, 76, 68>>  \* "OLD"

\* source folders with the setup file "s.exe" at the root, alone or next to
\* "d/c"
OverwriteFolders ==
    {setup @@ others : setup \in [{<<115, 46, 101, 120, 101>>} -> FileContents],
                       others \in [{<<100, 47, 99>>} -> OtherContents] \cup {<<>>}}

OverwriteInit ==
    /\ srcFolder \in OverwriteFolders
    /\ pkgSetupFile = <<115, 46, 101, 120, 101>>  \* "s.exe"
    /\ pkgVerbosity \in {"Normal", "Quiet", "Silent"}
    /\ outputFile \in {<<>>, <<OldPackage>>}
    /\ pkgResult = "None"
    /\ pkgInnerZip = <<>>
    /\ unpackFolder = <<>>
    /\ unpackResult = [kind |-> "None", setup_file |-> <<>>, file_count |-> 0,
                       total_size |-> 0]
    /\ pkgCall = NoCall
    /\ NonIntuneIdle

\* the files prompt_setup_file lists: the top level of the source folder
TopLevelFiles(folder) == {p \in DOMAIN folder : \A i \in 1..Len(p) : p[i] # Slash}

\* run_interactive_mode for Intune: run_interactive_intune asks for the
\* folders and the setup file, asks whether to overwrite if the output file
\* exists, asks whether to proceed, and returns a request of Normal
\* verbosity, which package then gets.
RunInteractiveIntune ==
    /\ pkgResult = "None"
    /\ pkgVerbosity = "Normal"
    /\ pkgSetupFile \in TopLevelFiles(srcFolder)
    /\ \E overwrite \in (IF Len(outputFile) > 0 THEN {"yes", "no"} ELSE {"not_asked"}) :
       \E proceed \in (IF overwrite = "no" THEN {"not_asked"} ELSE {"yes", "no"}) :
          /\ pkgCall' = [via |-> "interactive", existing |-> outputFile,
                         overwrite |-> overwrite, proceed |-> proceed]
          /\ IF overwrite = "no" \/ proceed = "no"
             THEN /\ pkgResult' = "Cancelled"
                  /\ UNCHANGED <<outputFile, pkgInnerZip>>
             ELSE \E draw \in KeyDraws, fault \in PackageFaults :
                    \E r \in {package(srcFolder, pkgSetupFile, "Normal", outputFile, draw,
                                       fault)} :
                       /\ pkgResult' = r.kind
                       /\ outputFile' = r.output
                       /\ pkgInnerZip' = r.inner_zip
    /\ UNCHANGED <<srcFolder, pkgSetupFile, pkgVerbosity, unpackFolder, unpackResult,
                   nonIntuneVars>>

OverwriteNext ==
    \/ Package
    \/ RunInteractiveIntune
    \/ Unpack

SpecOverwrite == OverwriteInit /\ [][OverwriteNext]_vars

\* C25: when the output file exists and the request is in Normal verbosity,
\* package returns OutputFileExists and leaves the file byte for byte as it
\* was; in Quiet or Silent verbosity the file is replaced by the new package.
C25_OverwriteByVerbosity ==
    (pkgCall.via = "direct" /\ Len(pkgCall.existing) > 0) =>
        IF pkgVerbosity = "Normal"
        THEN pkgResult = "OutputFileExists" /\ outputFile = pkgCall.existing
        ELSE /\ pkgResult # "OutputFileExists"
             /\ pkgResult = "Ok" =>
                   /\ outputFile # pkgCall.existing
                   /\ \E draw \in KeyDraws :
                         outputFile = package(srcFolder, pkgSetupFile, pkgVerbosity, <<>>,
                                              draw, "none").output

\* package in Quiet verbosity has replaced the old file, and the new file
\* unpacks.
C25_Witness ==
    /\ pkgCall.via = "direct"
    /\ pkgCall.existing = <<OldPackage>>
    /\ pkgVerbosity = "Quiet"
    /\ pkgResult = "Ok"
    /\ outputFile # <<OldPackage>>
    /\ unpackResult.kind = "Ok"

\* C29: in interactive mode, when the output file exists and the operator
\* answers yes to the overwrite prompt and yes to the proceed prompt, the
\* package call that follows overwrites the file and succeeds;
\* OutputFileExists is returned only when the operator was never asked.
C29_InteractiveOverwrite ==
    /\ (pkgCall.via = "interactive" /\ pkgCall.overwrite = "yes" /\ pkgCall.proceed = "yes") =>
          pkgResult \notin {"OutputFileExists", "Cancelled"}
    /\ pkgResult = "OutputFileExists" => pkgCall.overwrite = "not_asked"

(***************************************************************************)
(* unpack of an .intunewin file that package did not write.                *)
(***************************************************************************)
\* the entry names of an inner ZIP: "a", "/etc/x", "../x" and "d/../../x"
CraftedNames == {<<97>>, <<47, 101, 116, 99, 47, 120>>, <<46, 46, 47, 120>>, <<100, 47, 46, 46, 47, 46, 46, 47, 120>>}

\* the inner ZIPs: one or two entries
CraftedEntries ==
    {<<[name |-> n, data |-> <<1, 2>>]>> : n \in CraftedNames}
        \cup {<<[name |-> n, data |-> <<1, 2>>], [name |-> m, data |-> <<3>>]>> :
                 n \in CraftedNames, m \in CraftedNames}

\* what was done to the file afterwards: nothing, a byte of the ciphertext
\* changed, the encrypted content cut short, Detection.xml left out
Damages == {"none", "ciphertext", "cut", "no_detection"}

\* an .intunewin file around the given inner ZIP, built as package builds it
CraftedPackage(entries, draw, damage) ==
    Once({Once({Once({
        LET metadata == [NewDetectionMetadata(<<115, 46, 101, 120, 101>>, Len(inner_zip)) EXCEPT
                            !.encryption_info = enc.info]
            content == CASE damage = "ciphertext" ->
                                 [enc.output EXCEPT ![Len(enc.output)] = (@ + 1) % 256]
                         [] damage = "cut" -> Take(enc.output, 40)
                         [] OTHER -> enc.output
        IN ZipWrite(<<[name |-> IntuneText.contents, data |-> content]>>
                        \o (IF damage = "no_detection" THEN <<>>
                            ELSE <<[name |-> IntuneText.detection, data |-> detection_xml]>>),
                    ZipStored) :
        detection_xml \in
            {generate_detection_xml([NewDetectionMetadata(<<115, 46, 101, 120, 101>>, Len(inner_zip)) EXCEPT
                                        !.encryption_info = enc.info])}}) :
        enc \in {encrypt_content(inner_zip, draw)}}) :
        inner_zip \in {ZipWrite(entries, ZipDeflated)}})

UnpackInit ==
    /\ \E entries \in CraftedEntries, draw \in KeyDraws, damage \in Damages :
          outputFile = <<CraftedPackage(entries, draw, damage)>>
    /\ srcFolder = <<>>
    /\ pkgSetupFile = <<>>
    /\ pkgVerbosity = "Normal"
    /\ pkgResult = "None"
    /\ pkgInnerZip = <<>>
    /\ unpackFolder = <<>>
    /\ unpackResult = [kind |-> "None", setup_file |-> <<>>, file_count |-> 0,
                       total_size |-> 0]
    /\ pkgCall = NoCall
    /\ NonIntuneIdle

\* unpack(&request) of the file at input_file, into an empty folder
UnpackInput ==
    /\ pkgResult = "None"
    /\ unpackResult.kind = "None"
    /\ \E r \in {unpack(outputFile, unpackFolder)} :
          /\ unpackFolder' = r.folder
          /\ unpackResult' = [kind |-> r.kind, setup_file |-> r.setup_file,
                              file_count |-> r.file_count, total_size |-> r.total_size]
    /\ UNCHANGED <<srcFolder, pkgSetupFile, pkgVerbosity, outputFile, pkgResult,
                   pkgInnerZip, pkgCall, nonIntuneVars>>

UnpackNext == UnpackInput

SpecUnpack == UnpackInit /\ [][UnpackNext]_vars

RECURSIVE StaysInside(_, _, _)
\* walking the components from the i-th on, depth levels below the folder,
\* never leaves the folder
StaysInside(comps, i, depth) ==
    IF i > Len(comps) THEN TRUE
    ELSE IF comps[i] = <<46, 46>> THEN depth > 0 /\ StaysInside(comps, i + 1, depth - 1)
    ELSE IF comps[i] = <<46>> THEN StaysInside(comps, i + 1, depth)
    ELSE StaysInside(comps, i + 1, depth + 1)

\* output_folder.join(name) is a path inside output_folder: name is
\* relative and its .. components never step out
InsideOutputFolder(name) ==
    /\ Len(name) > 0
    /\ name[1] # Slash
    /\ StaysInside(Components(name), 1, 0)

\* C30: every file unpack creates lies inside the requested output folder,
\* whatever the entry names of the inner ZIP are; and when a step up to and
\* including decryption fails, unpack extracts no file.
C30_UnpackStaysInside ==
    unpackResult.kind # "None" =>
        /\ \A name \in DOMAIN unpackFolder : InsideOutputFolder(name)
        /\ unpackResult.kind \in {"InvalidIntunewinFile", "XmlError", "HmacVerificationFailed",
                                   "DecryptionError", "InvalidPadding"}
              => unpackFolder = <<>>
(***************************************************************************)
(* models/error.rs and cli/mod.rs: the error kinds, their exit codes and   *)
(* run.  An error is modelled by the name of its variant.                  *)
(***************************************************************************)
\* pub mod exit_codes
exit_codes ==
    [SUCCESS |-> 0, ERROR |-> 1, INVALID_ARGS |-> 2, EMPTY_SOURCE |-> 3,
     SETUP_NOT_FOUND |-> 4, OUTPUT_ERROR |-> 5, SCRIPTS_NOT_FOUND |-> 6, CANCELLED |-> 7]

\* the variants of PackageError
PackageErrors ==
    {"SourceFolderNotFound", "SourceFolderEmpty", "SetupFileNotFound",
     "OutputFolderCreationFailed", "OutputFileExists", "SourceReadError",
     "EncryptionError", "OutputWriteError", "ZipError", "XmlError", "InvalidArgument",
     "Cancelled", "InvalidIntunewinFile", "DecryptionError", "HmacVerificationFailed",
     "InvalidPadding", "ScriptsFolderNotFound", "NoScriptsFound", "XarError", "CpioError",
     "BomError", "Io"}

\* PackageError::exit_code
exit_code(e) ==
    CASE e = "SourceFolderNotFound" -> exit_codes.ERROR
      [] e = "SourceFolderEmpty" -> exit_codes.EMPTY_SOURCE
      [] e = "SetupFileNotFound" -> exit_codes.SETUP_NOT_FOUND
      [] e = "OutputFolderCreationFailed" -> exit_codes.OUTPUT_ERROR
      [] e = "OutputFileExists" -> exit_codes.ERROR
      [] e = "SourceReadError" -> exit_codes.ERROR
      [] e = "EncryptionError" -> exit_codes.ERROR
      [] e = "OutputWriteError" -> exit_codes.OUTPUT_ERROR
      [] e = "ZipError" -> exit_codes.ERROR
      [] e = "XmlError" -> exit_codes.ERROR
      [] e = "InvalidArgument" -> exit_codes.INVALID_ARGS
      [] e = "Cancelled" -> exit_codes.ERROR
      [] e = "InvalidIntunewinFile" -> exit_codes.ERROR
      [] e = "DecryptionError" -> exit_codes.ERROR
      [] e = "HmacVerificationFailed" -> exit_codes.ERROR
      [] e = "InvalidPadding" -> exit_codes.ERROR
      [] e = "ScriptsFolderNotFound" -> exit_codes.SCRIPTS_NOT_FOUND
      [] e = "NoScriptsFound" -> exit_codes.ERROR
      [] e = "XarError" -> exit_codes.ERROR
      [] e = "CpioError" -> exit_codes.ERROR
      [] e = "BomError" -> exit_codes.ERROR
      [] e = "Io" -> exit_codes.ERROR

\* what the operation behind a command may return to run: Ok or one of the
\* errors it raises
CommandOutcomes(command) ==
    LET create == {"Ok", "SourceFolderNotFound", "SetupFileNotFound", "SourceFolderEmpty",
                   "OutputFolderCreationFailed", "OutputFileExists", "SourceReadError",
                   "OutputWriteError", "ZipError", "XmlError"}
        extract == {"Ok", "InvalidIntunewinFile", "OutputFolderCreationFailed", "XmlError",
                    "DecryptionError", "HmacVerificationFailed", "InvalidPadding",
                    "ZipError", "OutputWriteError"}
        pkg == {"Ok", "SourceFolderNotFound", "SourceFolderEmpty", "ScriptsFolderNotFound",
                "NoScriptsFound", "XmlError", "CpioError", "BomError", "XarError", "Io",
                "OutputFolderCreationFailed", "OutputWriteError"}
    IN CASE command = "intune_create" -> create
         [] command = "intune_extract" -> extract
         [] command = "macos_pkg" -> pkg
         \* run_interactive_mode: the prompts, then package or macos::package
         [] command = "none" -> create \cup pkg \cup {"Cancelled", "InvalidArgument"}

CliCommands == {"intune_create", "intune_extract", "macos_pkg", "none"}

CliInit ==
    /\ cliCommand \in CliCommands
    /\ cliQuiet \in BOOLEAN
    /\ cliSilent \in BOOLEAN
    /\ cliOutcome = "None"
    /\ cliExit = -1
    /\ NonCliIdle

\* run(args); outcome is what the operation it starts returns
Run ==
    /\ cliExit = -1
    /\ \E outcome \in CommandOutcomes(cliCommand) :
         LET result == IF cliCommand = "none" /\ (cliQuiet \/ cliSilent)
                       THEN "InvalidArgument"
                       ELSE outcome
         IN /\ cliOutcome' = result
            /\ cliExit' = IF result = "Ok" THEN exit_codes.SUCCESS % 256
                          ELSE exit_code(result) % 256
    /\ UNCHANGED <<cliCommand, cliQuiet, cliSilent, nonCliVars>>

CliNext == Run

SpecCli == CliInit /\ [][CliNext]_vars

(***************************************************************************)
(* Properties of run, checked under SpecCli.                               *)
(***************************************************************************)

\* C12: the process exits with the canonical code of the result: success 0,
\* invalid arguments 2, empty source folder 3, setup file not found 4,
\* output write error 5 (a failure to create the output folder is an output
\* error as well and may exit 5), scripts folder not found 6, cancelled 7,
\* every other error 1.
C12_ExitCodes ==
    cliExit # -1 =>
        CASE cliOutcome = "Ok" -> cliExit = 0
          [] cliOutcome = "InvalidArgument" -> cliExit = 2
          [] cliOutcome = "SourceFolderEmpty" -> cliExit = 3
          [] cliOutcome = "SetupFileNotFound" -> cliExit = 4
          [] cliOutcome = "OutputWriteError" -> cliExit = 5
          [] cliOutcome = "OutputFolderCreationFailed" -> cliExit \in {1, 5}
          [] cliOutcome = "ScriptsFolderNotFound" -> cliExit = 6
          [] cliOutcome = "Cancelled" -> cliExit = 7
          [] OTHER -> cliExit = 1

(***************************************************************************)
(* macos/cpio.rs: CPIO archives in the odc format.                         *)
(***************************************************************************)
RECURSIVE OctalDigits(_)
\* the octal digits of val, most significant first, without leading zeros
OctalDigits(val) ==
    IF val < 8 THEN <<48 + val>> ELSE OctalDigits(val \div 8) \o <<48 + (val % 8)>>

\* format!("{:0width$o}", val): at least width digits, more if val needs them
FormatOctal(val, width) ==
    LET digits == OctalDigits(val)
    IN Fill(width - Len(digits), 48) \o digits

\* the constants of cpio.rs
CpioConst == [ROOT_UID |-> 0, WHEEL_GID |-> 80, S_IFREG |-> 32768, magic |-> 29127]

\* "TRAILER!!!\0"
CpioTrailerName == <<84, 82, 65, 73, 76, 69, 82, 33, 33, 33>> \o <<0>>

\* CpioHeader::for_file; now is the clock's reading.  mode & 0o7777 is the
\* remainder modulo 0o10000, which S_IFREG | _ then tops with its bit.
CpioHeaderForFile(mode, size, name_len, ino, now) ==
    [dev |-> 0, ino |-> ino, mode |-> CpioConst.S_IFREG + (mode % 4096),
     uid |-> CpioConst.ROOT_UID, gid |-> CpioConst.WHEEL_GID, nlink |-> 1, rdev |-> 0,
     mtime |-> now, namesize |-> name_len + 1, filesize |-> size]

\* CpioHeader::trailer
CpioHeaderTrailer ==
    [dev |-> 0, ino |-> 0, mode |-> 0, uid |-> 0, gid |-> 0, nlink |-> 1, rdev |-> 0,
     mtime |-> 0, namesize |-> 11, filesize |-> 0]

\* CpioHeader::to_bytes
CpioHeaderToBytes(h) ==
    FormatOctal(CpioConst.magic, 6) \o FormatOctal(h.dev, 6) \o FormatOctal(h.ino, 6)
        \o FormatOctal(h.mode, 6) \o FormatOctal(h.uid, 6) \o FormatOctal(h.gid, 6)
        \o FormatOctal(h.nlink, 6) \o FormatOctal(h.rdev, 6) \o FormatOctal(h.mtime, 11)
        \o FormatOctal(h.namesize, 6) \o FormatOctal(h.filesize, 11)

\* A variant that numbers the entries from 0.
create_cpio_archive_ino_from_zero(entries, now) ==
    Flatten([k \in 1..Len(entries) |->
                CpioHeaderToBytes(CpioHeaderForFile(entries[k].mode, Len(entries[k].data),
                                                    Len(entries[k].path), k - 1, now))
                    \o entries[k].path \o <<0>> \o entries[k].data])
        \o CpioHeaderToBytes(CpioHeaderTrailer) \o CpioTrailerName

\* create_cpio_archive: entry k is written with ino = k
create_cpio_archive(entries, now) ==
    Flatten([k \in 1..Len(entries) |->
                CpioHeaderToBytes(CpioHeaderForFile(entries[k].mode, Len(entries[k].data),
                                                    Len(entries[k].path), k, now))
                    \o entries[k].path \o <<0>> \o entries[k].data])
        \o CpioHeaderToBytes(CpioHeaderTrailer) \o CpioTrailerName

(***************************************************************************)
(* The caller of create_cpio_archive.                                      *)
(***************************************************************************)
\* the entries: paths "a" and "b/c", modes 0o644, 0o100755 and 0o40755
CpioEntrySet ==
    [path : {<<97>>, <<98, 47, 99>>}, data : {<<>>, <<1, 2, 3>>}, mode : {420, 33261, 16877}]

\* the readings of the clock: the epoch and a second of 2023
CpioClock == {0, 1700000000}

\* arguments CpioHeader::for_file gets in create_cpio_archive: the sizes
\* run to the largest 31-bit number, the name lengths and entry numbers to
\* 0o777777 and past it
CpioHeaderArgSet ==
    [mode : {420}, size : {0, 3, 2147483647}, name_len : {1, 262142, 262143},
     ino : {1, 2, 262143, 262144}, now : CpioClock]

CpioInit ==
    /\ cpioEntries \in SeqsUpTo(CpioEntrySet, MaxCpioEntries)
    /\ cpioNow \in CpioClock
    /\ cpioOut = <<>>
    /\ cpioHeaderArgs = <<>>
    /\ cpioHeader = <<>>
    /\ cpioPc = "start"
    /\ NonCpioIdle

\* create_cpio_archive(&entries)
CreateCpioArchive ==
    /\ cpioPc = "start"
    /\ cpioOut' = create_cpio_archive(cpioEntries, cpioNow)
    /\ cpioPc' = "archived"
    /\ UNCHANGED <<cpioEntries, cpioNow, cpioHeaderArgs, cpioHeader, nonCpioVars>>

\* CpioHeader::for_file(..).to_bytes() for one entry of a long list
WriteCpioHeader ==
    /\ cpioPc = "start"
    /\ cpioEntries = <<>>
    /\ \E a \in CpioHeaderArgSet :
         /\ a.now = cpioNow
         /\ cpioHeaderArgs' = a
         /\ cpioHeader' =
                CpioHeaderToBytes(CpioHeaderForFile(a.mode, a.size, a.name_len, a.ino, a.now))
    /\ cpioPc' = "header"
    /\ UNCHANGED <<cpioEntries, cpioNow, cpioOut, nonCpioVars>>

CpioNext ==
    \/ CreateCpioArchive
    \/ WriteCpioHeader

SpecCpio == CpioInit /\ [][CpioNext]_vars

(***************************************************************************)
(* Reading an odc archive back, and the properties checked under SpecCpio. *)
(***************************************************************************)
RECURSIVE OctalValue(_)
\* the number a text of octal digits stands for
OctalValue(digits) ==
    IF Len(digits) = 0 THEN 0
    ELSE 8 * OctalValue(Take(digits, Len(digits) - 1)) + (digits[Len(digits)] - 48)

\* the header of 76 bytes at a 0-based offset
CpioReadHeader(bytes, at) ==
    LET Field(from, width) == OctalValue(SubSeq(bytes, at + from + 1, at + from + width))
    IN [magic |-> SubSeq(bytes, at + 1, at + 6), dev |-> Field(6, 6), ino |-> Field(12, 6),
        mode |-> Field(18, 6), uid |-> Field(24, 6), gid |-> Field(30, 6),
        nlink |-> Field(36, 6), rdev |-> Field(42, 6), mtime |-> Field(48, 11),
        namesize |-> Field(59, 6), filesize |-> Field(65, 11)]

RECURSIVE CpioReadRecords(_, _)
\* the records of an archive from a 0-based offset to its end
CpioReadRecords(bytes, at) ==
    IF Len(bytes) < at + 76 THEN <<>>
    ELSE LET h == CpioReadHeader(bytes, at)
             name_end == at + 76 + h.namesize
             data_end == name_end + h.filesize
         IN IF data_end > Len(bytes) THEN <<>>
            ELSE <<[header |-> h, name |-> Slice(bytes, at + 76, name_end),
                    data |-> Slice(bytes, name_end, data_end), end |-> data_end]>>
                     \o CpioReadRecords(bytes, data_end)

\* C19: every record header create_cpio_archive writes is exactly 76 bytes,
\* also for an entry number above 0o777777 and a path length + 1 above
\* 0o777777.
C19_HeaderSize ==
    cpioPc = "header" => Len(cpioHeader) = 76

\* C20: the archive holds one record per entry, in input order, with ino
\* the 1-based position, mode 0o100000 | (mode & 0o7777), uid 0, gid 80,
\* namesize = path length + 1 and filesize = data length, then exactly one
\* trailer record (nlink 1, namesize 11, name "TRAILER!!!" and NUL) as the
\* last bytes; it begins with "070707", for the empty list too.
C20_Records ==
    cpioPc = "archived" =>
        LET records == CpioReadRecords(cpioOut, 0)
            n == Len(cpioEntries)
        IN /\ Len(records) = n + 1
           /\ SubSeq(cpioOut, 1, 6) = <<48, 55, 48, 55, 48, 55>>  \* "070707"
           /\ \A k \in 1..n :
                LET r == records[k]
                    e == cpioEntries[k]
                IN /\ r.header.magic = <<48, 55, 48, 55, 48, 55>>  \* "070707"
                   /\ r.header.ino = k
                   /\ r.header.mode = 32768 + (e.mode % 4096)
                   /\ r.header.uid = 0
                   /\ r.header.gid = 80
                   /\ r.header.namesize = Len(e.path) + 1
                   /\ r.header.filesize = Len(e.data)
                   /\ r.name = e.path \o <<0>>
                   /\ r.data = e.data
           /\ LET t == records[n + 1]
              IN /\ t.header.magic = <<48, 55, 48, 55, 48, 55>>  \* "070707"
                 /\ t.header.nlink = 1
                 /\ t.header.namesize = 11
                 /\ t.header.filesize = 0
                 /\ t.name = <<84, 82, 65, 73, 76, 69, 82, 33, 33, 33>> \o <<0>>
                 /\ t.end = Len(cpioOut)

\* Two entries, the second a directory-typed mode with data, were archived.
C20_Witness ==
    /\ cpioPc = "archived"
    /\ Len(cpioEntries) = 2
    /\ cpioEntries[2].mode = 16877
    /\ Len(cpioEntries[2].data) = 3
    /\ Len(CpioReadRecords(cpioOut, 0)) = 3


(***************************************************************************)
(* macos/payload.rs, macos/xml.rs, macos/mod.rs: flat packages.  A source  *)
(* folder is a function from the relative paths of its files to their      *)
(* contents; its directories are the proper prefixes of those paths.       *)
(***************************************************************************)
\* the element names, attribute names and fixed texts of PackageInfo and
\* Distribution, and the paths of the entries of a package
MacText ==
    [decl |-> <<60, 63, 120, 109, 108, 32, 118, 101, 114, 115, 105, 111, 110, 61, 34, 49, 46, 48, 34, 32, 101, 110, 99, 111, 100, 105, 110, 103, 61, 34, 117, 116, 102, 45, 56, 34, 63, 62>>,  \* "<?xml version="1.0" encoding="utf-8"?>"
     pkg_info |-> <<112, 107, 103, 45, 105, 110, 102, 111>>,  \* "pkg-info"
     format_version |-> <<102, 111, 114, 109, 97, 116, 45, 118, 101, 114, 115, 105, 111, 110>>,  \* "format-version"
     identifier |-> <<105, 100, 101, 110, 116, 105, 102, 105, 101, 114>>,  \* "identifier"
     version |-> <<118, 101, 114, 115, 105, 111, 110>>,  \* "version"
     install_location |-> <<105, 110, 115, 116, 97, 108, 108, 45, 108, 111, 99, 97, 116, 105, 111, 110>>,  \* "install-location"
     auth |-> <<97, 117, 116, 104>>,  \* "auth"
     root |-> <<114, 111, 111, 116>>,  \* "root"
     payload |-> <<112, 97, 121, 108, 111, 97, 100>>,  \* "payload"
     installKBytes |-> <<105, 110, 115, 116, 97, 108, 108, 75, 66, 121, 116, 101, 115>>,  \* "installKBytes"
     numberOfFiles |-> <<110, 117, 109, 98, 101, 114, 79, 102, 70, 105, 108, 101, 115>>,  \* "numberOfFiles"
     scripts |-> <<115, 99, 114, 105, 112, 116, 115>>,  \* "scripts"
     preinstall |-> <<112, 114, 101, 105, 110, 115, 116, 97, 108, 108>>,  \* "preinstall"
     postinstall |-> <<112, 111, 115, 116, 105, 110, 115, 116, 97, 108, 108>>,  \* "postinstall"
     file |-> <<102, 105, 108, 101>>,  \* "file"
     dot_preinstall |-> <<46, 47, 112, 114, 101, 105, 110, 115, 116, 97, 108, 108>>,  \* "./preinstall"
     dot_postinstall |-> <<46, 47, 112, 111, 115, 116, 105, 110, 115, 116, 97, 108, 108>>,  \* "./postinstall"
     installer_gui_script |-> <<105, 110, 115, 116, 97, 108, 108, 101, 114, 45, 103, 117, 105, 45, 115, 99, 114, 105, 112, 116>>,  \* "installer-gui-script"
     minSpecVersion |-> <<109, 105, 110, 83, 112, 101, 99, 86, 101, 114, 115, 105, 111, 110>>,  \* "minSpecVersion"
     title |-> <<116, 105, 116, 108, 101>>,  \* "title"
     options |-> <<111, 112, 116, 105, 111, 110, 115>>,  \* "options"
     customize |-> <<99, 117, 115, 116, 111, 109, 105, 122, 101>>,  \* "customize"
     never |-> <<110, 101, 118, 101, 114>>,  \* "never"
     require_scripts |-> <<114, 101, 113, 117, 105, 114, 101, 45, 115, 99, 114, 105, 112, 116, 115>>,  \* "require-scripts"
     false |-> <<102, 97, 108, 115, 101>>,  \* "false"
     true |-> <<116, 114, 117, 101>>,  \* "true"
     hostArchitectures |-> <<104, 111, 115, 116, 65, 114, 99, 104, 105, 116, 101, 99, 116, 117, 114, 101, 115>>,  \* "hostArchitectures"
     architectures |-> <<120, 56, 54, 95, 54, 52, 44, 97, 114, 109, 54, 52>>,  \* "x86_64,arm64"
     domains |-> <<100, 111, 109, 97, 105, 110, 115>>,  \* "domains"
     enable_anywhere |-> <<101, 110, 97, 98, 108, 101, 95, 97, 110, 121, 119, 104, 101, 114, 101>>,  \* "enable_anywhere"
     enable_currentUserHome |-> <<101, 110, 97, 98, 108, 101, 95, 99, 117, 114, 114, 101, 110, 116, 85, 115, 101, 114, 72, 111, 109, 101>>,  \* "enable_currentUserHome"
     enable_localSystem |-> <<101, 110, 97, 98, 108, 101, 95, 108, 111, 99, 97, 108, 83, 121, 115, 116, 101, 109>>,  \* "enable_localSystem"
     choices_outline |-> <<99, 104, 111, 105, 99, 101, 115, 45, 111, 117, 116, 108, 105, 110, 101>>,  \* "choices-outline"
     line |-> <<108, 105, 110, 101>>,  \* "line"
     choice |-> <<99, 104, 111, 105, 99, 101>>,  \* "choice"
     default |-> <<100, 101, 102, 97, 117, 108, 116>>,  \* "default"
     id |-> <<105, 100>>,  \* "id"
     visible |-> <<118, 105, 115, 105, 98, 108, 101>>,  \* "visible"
     pkg_ref |-> <<112, 107, 103, 45, 114, 101, 102>>,  \* "pkg-ref"
     base_pkg_ref |-> <<35, 98, 97, 115, 101, 46, 112, 107, 103>>,  \* "#base.pkg"
     Distribution |-> <<68, 105, 115, 116, 114, 105, 98, 117, 116, 105, 111, 110>>,  \* "Distribution"
     base_pkg |-> <<98, 97, 115, 101, 46, 112, 107, 103>>,  \* "base.pkg"
     Bom |-> <<98, 97, 115, 101, 46, 112, 107, 103, 47, 66, 111, 109>>,  \* "base.pkg/Bom"
     Payload |-> <<98, 97, 115, 101, 46, 112, 107, 103, 47, 80, 97, 121, 108, 111, 97, 100>>,  \* "base.pkg/Payload"
     PackageInfo |-> <<98, 97, 115, 101, 46, 112, 107, 103, 47, 80, 97, 99, 107, 97, 103, 101, 73, 110, 102, 111>>,  \* "base.pkg/PackageInfo"
     Scripts |-> <<98, 97, 115, 101, 46, 112, 107, 103, 47, 83, 99, 114, 105, 112, 116, 115>>]  \* "base.pkg/Scripts"

\* GzEncoder::new(Vec::new(), Compression::default()), write_all, finish:
\* the ten header bytes, the data as one stored block, its checksum and its
\* length
GzEncode(data) ==
    <<31, 139, 8, 0, 0, 0, 0, 0, 0, 255>>
        \o <<1>> \o write_u16_le(Len(data)) \o write_u16_le(65535 - Len(data)) \o data
        \o ZipCrc(data) \o write_u32_le(Len(data))

\* what the file system reports for the entries of a source folder: the
\* permissions and owner of a file and of a directory, and a directory's
\* length
MacMetadata ==
    [file_mode |-> 33188, dir_mode |-> 16877, uid |-> 501, gid |-> 20, dir_len |-> 4096]

\* WalkDir::new(source_folder) without the root: every directory before
\* what it holds, the entries of a directory in the order of their names
MacWalk(folder) ==
    LET paths == UNION {PathPrefixes(p) : p \in DOMAIN folder}
        sorted == [k \in 1..Cardinality(paths) |->
                      CHOOSE p \in paths : Cardinality({q \in paths : PathLess(q, p)}) = k - 1]
    IN [k \in 1..Len(sorted) |->
          IF sorted[k] \in DOMAIN folder
          THEN [path |-> sorted[k], is_dir |-> FALSE, data |-> folder[sorted[k]]]
          ELSE [path |-> sorted[k], is_dir |-> TRUE, data |-> <<>>]]

\* collect_files: the PackagePayload
collect_files(folder) ==
    LET walk == MacWalk(folder)
        files == [k \in 1..Len(walk) |->
                     IF walk[k].is_dir
                     THEN [relative_path |-> walk[k].path, size |-> 0,
                           mode |-> MacMetadata.dir_mode]
                     ELSE [relative_path |-> walk[k].path, size |-> Len(walk[k].data),
                           mode |-> MacMetadata.file_mode]]
    IN [files |-> files,
        total_size |-> SumRange([k \in 1..Len(files) |-> files[k].size], 1, Len(files))]

\* payload::create_payload: the files, not the directories, with their
\* permission bits, as a gzip-compressed CPIO archive
create_payload(folder, now) ==
    Once({Once({GzEncode(cpio_data) :
                  cpio_data \in
                      {create_cpio_archive(
                           [k \in 1..Len(entries) |->
                               [path |-> entries[k].path, data |-> entries[k].data,
                                mode |-> MacMetadata.file_mode % 4096]],
                           now)}}) :
            entries \in {SelectSeq(MacWalk(folder), LAMBDA e : ~e.is_dir)}})

\* A variant that takes whatever is named preinstall or postinstall for a
\* script.
collect_scripts_of_any_kind(scripts) ==
    IF scripts.kind = "missing"
    THEN [kind |-> "ScriptsFolderNotFound", has_preinstall |-> FALSE, has_postinstall |-> FALSE]
    ELSE [kind |-> "Ok", has_preinstall |-> scripts.preinstall # "absent",
          has_postinstall |-> scripts.postinstall # "absent"]

\* collect_scripts: exists() && is_file() for each of the two scripts
collect_scripts(scripts) ==
    IF scripts.kind = "missing"
    THEN [kind |-> "ScriptsFolderNotFound", has_preinstall |-> FALSE, has_postinstall |-> FALSE]
    ELSE [kind |-> "Ok", has_preinstall |-> scripts.preinstall = "file",
          has_postinstall |-> scripts.postinstall = "file"]

\* the contents of the two scripts
ScriptContent == [preinstall |-> <<35, 33, 97>>, postinstall |-> <<35, 33, 98>>]

\* create_scripts_archive; SCRIPT_MODE is 0o755
create_scripts_archive(scripts, now) ==
    LET scripts_info == collect_scripts(scripts)
        entries ==
            (IF scripts_info.has_preinstall
             THEN <<[path |-> MacText.preinstall, data |-> ScriptContent.preinstall,
                     mode |-> 493]>>
             ELSE <<>>)
            \o (IF scripts_info.has_postinstall
                THEN <<[path |-> MacText.postinstall, data |-> ScriptContent.postinstall,
                        mode |-> 493]>>
                ELSE <<>>)
    IN IF scripts_info.kind # "Ok" THEN [kind |-> scripts_info.kind, bytes |-> <<>>]
       ELSE IF Len(entries) = 0 THEN [kind |-> "NoScriptsFound", bytes |-> <<>>]
       ELSE Once({[kind |-> "Ok", bytes |-> GzEncode(cpio_data)] :
                    cpio_data \in {create_cpio_archive(entries, now)}})

\* generate_packageinfo: the declaration is written first, then the events
generate_packageinfo(identifier, version, install_location, install_kbytes, num_files, has_preinstall, has_postinstall) ==
    MacText.decl
        \o WriteEvents(
               <<TextEv(<<10>>),
                 TagEv("Start", MacText.pkg_info,
                       <<<<MacText.format_version, <<50>>>>,
                         <<MacText.identifier, identifier>>,
                         <<MacText.version, version>>,
                         <<MacText.install_location, install_location>>,
                         <<MacText.auth, MacText.root>>>>),
                 TagEv("Empty", MacText.payload,
                       <<<<MacText.installKBytes, ToDecimal(install_kbytes)>>,
                         <<MacText.numberOfFiles, ToDecimal(num_files)>>>>)>>
               \o (IF has_preinstall \/ has_postinstall
                   THEN <<TagEv("Start", MacText.scripts, <<>>)>>
                          \o (IF has_preinstall
                              THEN <<TagEv("Empty", MacText.preinstall,
                                           <<<<MacText.file, MacText.dot_preinstall>>>>)>>
                              ELSE <<>>)
                          \o (IF has_postinstall
                              THEN <<TagEv("Empty", MacText.postinstall,
                                           <<<<MacText.file, MacText.dot_postinstall>>>>)>>
                              ELSE <<>>)
                          \o <<TagEv("End", MacText.scripts, <<>>)>>
                   ELSE <<>>)
               \o <<TagEv("End", MacText.pkg_info, <<>>)>>)

\* generate_distribution
generate_distribution(identifier, title, version, install_kbytes) ==
    MacText.decl
        \o WriteEvents(
               <<TextEv(<<10>>),
                 TagEv("Start", MacText.installer_gui_script,
                       <<<<MacText.minSpecVersion, <<49>>>>>>)>>
               \o write_simple_element(MacText.title, title)
               \o <<TagEv("Empty", MacText.options,
                          <<<<MacText.customize, MacText.never>>,
                            <<MacText.require_scripts, MacText.false>>,
                            <<MacText.hostArchitectures, MacText.architectures>>>>),
                    TagEv("Empty", MacText.domains,
                          <<<<MacText.enable_anywhere, MacText.false>>,
                            <<MacText.enable_currentUserHome, MacText.false>>,
                            <<MacText.enable_localSystem, MacText.true>>>>),
                    TagEv("Start", MacText.choices_outline, <<>>),
                    TagEv("Empty", MacText.line, <<<<MacText.choice, MacText.default>>>>),
                    TagEv("End", MacText.choices_outline, <<>>),
                    TagEv("Start", MacText.choice,
                          <<<<MacText.id, MacText.default>>,
                            <<MacText.visible, MacText.false>>,
                            <<MacText.title, title>>>>),
                    TagEv("Empty", MacText.pkg_ref, <<<<MacText.id, identifier>>>>),
                    TagEv("End", MacText.choice, <<>>),
                    TagEv("Start", MacText.pkg_ref,
                          <<<<MacText.id, identifier>>,
                            <<MacText.version, version>>,
                            <<MacText.installKBytes, ToDecimal(install_kbytes)>>>>),
                    TextEv(MacText.base_pkg_ref),
                    TagEv("End", MacText.pkg_ref, <<>>),
                    TagEv("End", MacText.installer_gui_script, <<>>)>>)

\* create_bom_from_directory, cfg(unix)
create_bom_from_directory(folder) ==
    Once({Once({create_bom(entries) :
                  entries \in
                      {[k \in 1..Len(walk) |->
                          [path |-> walk[k].path,
                           mode |-> IF walk[k].is_dir THEN MacMetadata.dir_mode
                                    ELSE MacMetadata.file_mode,
                           uid |-> MacMetadata.uid, gid |-> MacMetadata.gid,
                           size |-> IF walk[k].is_dir THEN MacMetadata.dir_len
                                    ELSE Len(walk[k].data)]]}}) :
            walk \in {MacWalk(folder)}})

RECURSIVE XarAddAll(_, _)
\* the entries of a XarBuilder after the first k of the calls adds, each
\* add_file or add_directory
XarAddAll(adds, k) ==
    IF k = 0 THEN <<>>
    ELSE Once({Append(entries,
                      NewXarEntry(entries, k, adds[k].path, adds[k].entry_type,
                                  adds[k].data)) :
                 entries \in {XarAddAll(adds, k - 1)}})

\* the request of a build: identifier "c.t", version "1.0", install
\* location "/"
MacRequest == [identifier |-> <<99, 46, 116>>, version |-> <<49, 46, 48>>, install_location |-> <<47>>]

\* the clock while a package is built
MacNow == 1700000000

\* where the build of a package may meet an I/O failure
MacFaults == {"none", "create_dir", "write"}

\* package, its scripts block: whether there are scripts, and their archive
MacScriptsArchive(scripts) ==
    LET None == [kind |-> "Ok", has_preinstall |-> FALSE, has_postinstall |-> FALSE,
                 some |-> FALSE, bytes |-> <<>>]
        scripts_info == collect_scripts(scripts)
        archive == create_scripts_archive(scripts, MacNow)
    IN IF scripts.kind = "none" THEN None
       ELSE IF scripts.kind = "missing" THEN [None EXCEPT !.kind = "ScriptsFolderNotFound"]
       ELSE IF scripts_info.kind # "Ok" THEN [None EXCEPT !.kind = scripts_info.kind]
       ELSE IF ~(scripts_info.has_preinstall \/ scripts_info.has_postinstall)
       THEN None
       ELSE IF archive.kind # "Ok" THEN [None EXCEPT !.kind = archive.kind]
       ELSE [kind |-> "Ok", has_preinstall |-> scripts_info.has_preinstall,
             has_postinstall |-> scripts_info.has_postinstall, some |-> TRUE,
             bytes |-> archive.bytes]

\* package, from XarBuilder::new() to finish
MacOuterXar(distribution_xml, bom_data, payload_cpio, packageinfo_xml, scripts_archive) ==
    Once({Once({finish(entries) : entries \in {XarAddAll(adds, Len(adds))}}) :
            adds \in
                {<<[path |-> MacText.Distribution, entry_type |-> "File",
                    data |-> distribution_xml],
                   [path |-> MacText.base_pkg, entry_type |-> "Directory", data |-> <<>>],
                   [path |-> MacText.Bom, entry_type |-> "File", data |-> bom_data],
                   [path |-> MacText.Payload, entry_type |-> "File", data |-> payload_cpio],
                   [path |-> MacText.PackageInfo, entry_type |-> "File",
                    data |-> packageinfo_xml]>>
                 \o (IF scripts_archive.some
                     THEN <<[path |-> MacText.Scripts, entry_type |-> "File",
                             data |-> scripts_archive.bytes]>>
                     ELSE <<>>)}})

\* package, up to finish: the assembled package or the error
MacAssemble(source, scripts) ==
    Once({IF sa.kind # "Ok" THEN [kind |-> sa.kind, bytes |-> <<>>]
          ELSE Once({IF bom.kind # "Ok" THEN [kind |-> bom.kind, bytes |-> <<>>]
                     ELSE MacOuterXar(
                              generate_distribution(
                                  MacRequest.identifier, MacRequest.identifier,
                                  MacRequest.version, payload_data.total_size \div 1024),
                              bom.bytes,
                              create_payload(source, MacNow),
                              generate_packageinfo(
                                  MacRequest.identifier, MacRequest.version,
                                  MacRequest.install_location,
                                  payload_data.total_size \div 1024,
                                  Len(payload_data.files),
                                  sa.has_preinstall, sa.has_postinstall),
                              sa) :
                     bom \in {create_bom_from_directory(source)}}) :
          sa \in {MacScriptsArchive(scripts)},
          payload_data \in {collect_files(source)}})

\* package, its end, after pkg was assembled: the output directory is
\* created and fs::write creates the file and writes the package to it.
\* The result and the file at the output path afterwards; existing is that
\* file before (<<>> if there is none).
MacWriteOutput(pkg, existing, fault) ==
    IF pkg.kind # "Ok" THEN [kind |-> pkg.kind, output |-> existing]
    ELSE IF fault = "create_dir"
    THEN [kind |-> "OutputFolderCreationFailed", output |-> existing]
    ELSE IF fault = "write"
    THEN [kind |-> "OutputWriteError", output |-> Take(pkg.bytes, Len(pkg.bytes) \div 2)]
    ELSE [kind |-> "Ok", output |-> pkg.bytes]

(***************************************************************************)
(* The three ways a build is started.                                      *)
(***************************************************************************)
\* the source folders: the empty folder and the folders with any of the
\* files "a" and "d/c"
MacSourceFolders ==
    {[p \in paths |-> [i \in 1..Len(p) |-> p[i] % 7]] : paths \in SUBSET {<<97>>, <<100, 47, 99>>}}

\* the scripts folders: none given, one that does not exist, and the
\* folders where each of preinstall and postinstall is absent, a file or a
\* directory
MacScriptsFolders ==
    {NoScriptsFolder, [NoScriptsFolder EXCEPT !.kind = "missing"]}
        \cup [kind : {"folder"}, preinstall : {"absent", "file", "dir"},
              postinstall : {"absent", "file", "dir"}]

MacInit ==
    /\ macSource \in MacSourceFolders
    /\ macScripts \in MacScriptsFolders
    /\ macVia = "none"
    /\ macResult = "None"
    /\ macOutput = <<>>
    /\ NonMacIdle

\* run_macos_pkg: the folder exists; an empty one is turned away before the
\* request is made
RunMacosPkg ==
    /\ macResult = "None"
    /\ IF DOMAIN macSource = {}
       THEN macResult' = "SourceFolderEmpty" /\ macOutput' = macOutput
       ELSE \E pkg \in {MacAssemble(macSource, macScripts)} :
               \E fault \in MacFaults :
                  \E r \in {MacWriteOutput(pkg, macOutput, fault)} :
                     macResult' = r.kind /\ macOutput' = r.output
    /\ macVia' = "subcommand"
    /\ UNCHANGED <<macSource, macScripts, nonMacVars>>

\* run_interactive_macos and the package call of run_interactive_mode: the
\* prompts accept an existing source folder and an existing scripts folder
\* (one without scripts once the warning is passed); the build is
\* cancelled at "Proceed with packaging?" or goes on
RunInteractiveMacos ==
    /\ macResult = "None"
    /\ macScripts.kind # "missing"
    /\ \/ macResult' = "Cancelled" /\ macOutput' = macOutput
       \/ \E pkg \in {MacAssemble(macSource, macScripts)} :
             \E fault \in MacFaults :
                \E r \in {MacWriteOutput(pkg, macOutput, fault)} :
                   macResult' = r.kind /\ macOutput' = r.output
    /\ macVia' = "interactive"
    /\ UNCHANGED <<macSource, macScripts, nonMacVars>>

\* macos::package(request), called by a user of the library
MacosPackage ==
    /\ macResult = "None"
    /\ \E pkg \in {MacAssemble(macSource, macScripts)} :
         \E fault \in MacFaults :
            \E r \in {MacWriteOutput(pkg, macOutput, fault)} :
               macResult' = r.kind /\ macOutput' = r.output
    /\ macVia' = "direct"
    /\ UNCHANGED <<macSource, macScripts, nonMacVars>>

MacNext ==
    \/ RunMacosPkg
    \/ RunInteractiveMacos
    \/ MacosPackage

SpecMacos == MacInit /\ [][MacNext]_vars

(***************************************************************************)
(* Reading a package back.                                                 *)
(***************************************************************************)
\* the bytes of the heap that the <data> element of a TOC file declares
XarFileData(bytes, f) ==
    SubSeq(XarHeap(bytes), f.offset[1] + 1, f.offset[1] + f.length[1])

\* whether the TOC has a file called name inside the directory base.pkg
InBasePkg(files, name) ==
    \E i, j \in 1..Len(files) :
        /\ files[i].name = <<MacText.base_pkg>> /\ files[i].type = <<XarText.directory>>
        /\ files[j].name = <<name>> /\ files[j].parent = files[i].id

\* the events of the PackageInfo a package carries
PackageInfoEvents(bytes, files) ==
    LET at == CHOOSE j \in 1..Len(files) : files[j].name = <<<<80, 97, 99, 107, 97, 103, 101, 73, 110, 102, 111>>>>
    IN ReadEvents(XarFileData(bytes, files[at]), TRUE)

\* whether an element called name is among the events
HasElement(evs, name) ==
    \E i \in 1..Len(evs) : evs[i].t \in {"Start", "Empty"} /\ TagName(evs[i].body) = name

(***************************************************************************)
(* Properties of macos/mod.rs, checked under SpecMacos.                    *)
(***************************************************************************)

\* C16: in every package macos::package produced, base.pkg/Scripts is in
\* the XAR TOC exactly when the PackageInfo in it has a <scripts> element,
\* which is exactly when preinstall or postinstall is a regular file of the
\* scripts folder; <preinstall> is there exactly when preinstall is such a
\* file, <postinstall> exactly when postinstall is; and without a scripts
\* folder there is neither Scripts nor <scripts>.
C16_ScriptsOptIn ==
    macResult = "Ok" =>
        \E toc \in {XarTocFiles(macOutput)} : \E info \in {PackageInfoEvents(macOutput, toc)} :
            LET pre == macScripts.kind = "folder" /\ macScripts.preinstall = "file"
                post == macScripts.kind = "folder" /\ macScripts.postinstall = "file"
            IN /\ InBasePkg(toc, <<83, 99, 114, 105, 112, 116, 115>>) <=> HasElement(info, MacText.scripts)
               /\ HasElement(info, MacText.scripts) <=> (pre \/ post)
               /\ HasElement(info, MacText.preinstall) <=> pre
               /\ HasElement(info, MacText.postinstall) <=> post
               /\ macScripts.kind = "none" =>
                     ~InBasePkg(toc, <<83, 99, 114, 105, 112, 116, 115>>) /\ ~HasElement(info, MacText.scripts)

\* C16 witness: a package was built from a scripts folder where preinstall
\* is a regular file and postinstall is a directory, and Scripts is in its
\* TOC.
C16_Witness ==
    /\ macResult = "Ok"
    /\ macScripts.kind = "folder"
    /\ macScripts.preinstall = "file"
    /\ macScripts.postinstall = "dir"
    /\ InBasePkg(XarTocFiles(macOutput), <<83, 99, 114, 105, 112, 116, 115>>)

\* C17: a build from a source folder with entries and a scripts folder that
\* exists but holds neither a preinstall nor a postinstall file, once
\* confirmed, fails with NoScriptsFound.
C17_NoScriptsFound ==
    (/\ macResult \notin {"None", "Cancelled"}
     /\ DOMAIN macSource # {}
     /\ macScripts.kind = "folder"
     /\ macScripts.preinstall # "file"
     /\ macScripts.postinstall # "file")
        => macResult = "NoScriptsFound"

\* C18: a build from a source folder without entries, started by the
\* subcommand, by interactive mode once confirmed, or by a call of
\* macos::package, is rejected with SourceFolderEmpty, whose exit code is
\* 3, and leaves no file at the output path.
C18_EmptySourceRejected ==
    (macResult \notin {"None", "Cancelled"} /\ DOMAIN macSource = {})
        => /\ macResult = "SourceFolderEmpty"
           /\ exit_code(macResult) = exit_codes.EMPTY_SOURCE
           /\ macOutput = <<>>

====
